---- MODULE Spec2Model ----
(***************************************************************************)
(* Mirai matchmaking: the rendezvous server (mirai-matchmaking-server) and *)
(* the matchmaking client's handshake state machine                        *)
(* (mirai-matchmaking-client), as state machines over a packet transport.  *)
(***************************************************************************)
EXTENDS Integers, Naturals, Sequences, FiniteSets, Bags, TLC

(***************************************************************************)
(* Bounds of the model.                                                    *)
(***************************************************************************)
\* number of client addresses
NumClients == 3
\* number of socket events the server processes in one run
MaxServerEvents == 3
\* number of owner calls (challenge, accept, decline) made in one run, all clients together
MaxCalls == 3
\* the same, for the longer runs of three clients that a decision needs to go wrong
MaxLongCalls == 5
\* the same, for three clients whose owners also queue and dequeue
MaxTrioCalls == 4
\* the time at which the clock of a run stops
MaxTime == 4
\* number of Pings of one run that are answered or still in flight, all clients together
MaxPings == 2
\* the width in bits of the model's timestamps; the program's are u128
TimeBits == 4
\* number of socket events that arrive at the client whose handler loop is followed
MaxEvents == 2
\* number of socket events of any payload and address that a run delivers to it
MaxDecoded == 1

Clients == 1 .. NumClients

(***************************************************************************)
(* Wire protocol.                                                          *)
(***************************************************************************)
\* mirai_core::v1::ClientToServer
ClientToServer == {"StatusCheck", "Queue", "Dequeue", "Heartbeat"}

\* mirai_core::v1::ServerToClient
Alive == [type |-> "Alive"]
PeersMsg(S) == [type |-> "Peers", peers |-> S]
QueuedMsg(a) == [type |-> "Queued", addr |-> a]
DequeuedMsg(a) == [type |-> "Dequeued", addr |-> a]

\* ClientToClient: the peer-to-peer message set
Challenge == [type |-> "Challenge"]
Accept == [type |-> "Accept"]
Decline == [type |-> "Decline"]
Start(t) == [type |-> "Start", time |-> t]
Ping(t) == [type |-> "Ping", time |-> t]
PingResponse(t) == [type |-> "PingResponse", time |-> t]

\* the server's address: the one source whose packets are server messages
ServerAddr == 0

\* laminar::Packet::reliable_unordered(addr, payload), with the sender's address
Packet(from, to, m) == [src |-> from, dst |-> to, msg |-> m]

\* a bag holding the packets of set S once each
Once(S) == SetToBag(S)

\* Status (client)
Idle == [tag |-> "Idle"]
QueuePending == [tag |-> "QueuePending"]
Queued == [tag |-> "Queued"]
MatchPending(a) == [tag |-> "MatchPending", addr |-> a]
MatchConfirmed(a) == [tag |-> "MatchConfirmed", addr |-> a]

\* ServerConnection (client)
Connected == [tag |-> "Connected"]
Disconnected == [tag |-> "Disconnected"]
Connecting(time_limit) == [tag |-> "Connecting", time_limit |-> time_limit]

\* PeerStatus
PeerStatus == {"None", "OutgoingChallenge", "IncomingChallenge", "Confirmed"}

\* Peer::new: the entry of a peer table, kept under the peer's address; latency is
\* None as {} and Some(l) as {l}
NewPeer == [latency |-> {}, ping_count |-> 0, status |-> "None"]

\* Peer::add_ping with the two latencies summed before the halving
add_pingHalfOfSum(peer, ping_latency) ==
    [peer EXCEPT !.ping_count = @ + 1,
                 !.latency = IF @ = {}
                             THEN {ping_latency}
                             ELSE {(l + ping_latency) \div 2 : l \in @}]

\* Peer::add_ping
add_ping(peer, ping_latency) ==
    [peer EXCEPT !.ping_count = @ + 1,
                 !.latency = IF @ = {}
                             THEN {ping_latency}
                             ELSE {(l \div 2) + (ping_latency \div 2) : l \in @}]

VARIABLES
    \* server
    queue,                \* with_socket's queue: HashSet<SocketAddr>
    served,               \* the socket events the server has processed, in order
    server_running,       \* with_socket's loop has not returned
    \* transport
    net,                  \* the bag of packets sent and not yet received
    out,                  \* the bag of packets the last step sent
    last,                 \* the last step: what ran, for whom, and the state it found
    \* clients
    status,               \* Client::status
    incoming_challenges,  \* Client::incoming_challenges
    outgoing_challenges,  \* Client::outgoing_challenges
    challenging,          \* per client: the peer of a challenge() call between its send and its insert
    calls_left,           \* the number of owner calls the run still makes
    start_sent,           \* per client: the addresses it has sent a Start to
    start_received,       \* per client: the addresses whose Start its handler has processed
    peers,                \* Client::peers: per client, the table from address to Peer
    samples,              \* per client and peer: the latencies passed to add_ping of the
                          \* peer's entry since Peer::new made it, in order
    called,               \* per client: the challenge(p) calls and the accept(p) calls that sent
                          \* an Accept, as <<"challenge", p>> and <<"accept", p>>
    server_connection,    \* Client::server_connection
    now,                  \* the time elapsed since the clients were constructed
    packet_sender_connected, \* per client: the channel behind Client::packet_sender has its receiver
    threads,              \* the owner thread and the handler thread of one client: the lock and
                          \* send instructions each has still to run, and the mutexes it holds
    event_receiver,       \* per client: the socket events that have arrived and that the
                          \* handler has not yet taken, in order
    message_receiver,     \* per client: the Message::Quit commands the handler has not yet taken
    handler               \* per client: the handler thread's result so far, its place in the
                          \* loop body, and the events of the iteration's start still waiting

serverVars == <<queue, served, server_running>>
clientVars == <<status, incoming_challenges, outgoing_challenges, challenging, calls_left,
                start_sent, start_received, peers, samples, called, server_connection,
                now, packet_sender_connected, threads, event_receiver, message_receiver,
                handler>>
loopVars == <<threads, event_receiver, message_receiver, handler>>
vars == <<queue, served, server_running, net, out, last, status, incoming_challenges,
          outgoing_challenges, challenging, calls_left, start_sent, start_received,
          peers, samples, called, server_connection, now, packet_sender_connected,
          threads, event_receiver, message_receiver, handler>>

\* the number of values of a timestamp: its arithmetic wraps at U128
U128 == 2 ^ TimeBits

\* the record of a step: op names the operation, who the address it ran for or whose
\* packet it handled, on the client at address at; pre is the status (client steps)
\* and q the queue (server steps) the step found, or the caller's Peer argument as
\* the call leaves it (challenge)
Step(op, at, who, pre, q) == [op |-> op, at |-> at, who |-> who, pre |-> pre, q |-> q]

NoStep == Step("none", ServerAddr, ServerAddr, Idle, {})

(***************************************************************************)
(* Rendezvous server: with_socket's loop, one socket event per step.       *)
(***************************************************************************)
\* FromClient::StatusCheck
ServerStatusCheck(source) ==
    /\ out' = Once({Packet(ServerAddr, source, Alive)})
    /\ queue' = queue

\* QueuedFanout, iterating the queue after the insertion: the newcomer is told too
QueuedFanoutAfterInsert(source, queue_clone) ==
    Once({Packet(ServerAddr, client, QueuedMsg(source)) : client \in queue_clone \cup {source}})

\* the packets of the Queued fan-out: one to every address of queue_clone
QueuedFanout(source, queue_clone) ==
    Once({Packet(ServerAddr, client, QueuedMsg(source)) : client \in queue_clone})

\* ServerQueue with the fan-out skipped for a source that is already queued
ServerQueueResyncOnly(source) ==
    LET queue_clone == queue \ {source} IN
    /\ out' = Once({Packet(ServerAddr, source, PeersMsg(queue_clone))})
                (+) (IF source \in queue THEN EmptyBag ELSE QueuedFanout(source, queue_clone))
    /\ queue' = queue \cup {source}

\* ServerQueue that replies with the queue as it is after the insertion
ServerQueuePeersAfterInsert(source) ==
    LET queue_clone == queue \ {source} IN
    /\ out' = Once({Packet(ServerAddr, source, PeersMsg(queue \cup {source}))})
                (+) QueuedFanout(source, queue_clone)
    /\ queue' = queue \cup {source}

\* FromClient::Queue
ServerQueue(source) ==
    LET queue_clone == queue \ {source} IN
    /\ out' = Once({Packet(ServerAddr, source, PeersMsg(queue_clone))})
                (+) QueuedFanout(source, queue_clone)
    /\ queue' = queue \cup {source}

\* ServerDequeue that leaves the queue as it is
ServerDequeueKeeps(source) ==
    /\ queue' = queue
    /\ out' = EmptyBag

\* FromClient::Dequeue
ServerDequeue(source) ==
    /\ queue' = queue \ {source}
    /\ out' = EmptyBag

\* FromClient::Heartbeat
ServerHeartbeat(source) ==
    /\ queue' = queue
    /\ out' = EmptyBag

\* the match on a payload that deserializes as FromClient, every send succeeding
ServerMessage(source, type) ==
    /\ server_running
    /\ Len(served) < MaxServerEvents
    /\ CASE type = "StatusCheck" -> ServerStatusCheck(source)
         [] type = "Queue" -> ServerQueue(source)
         [] type = "Dequeue" -> ServerDequeue(source)
         [] type = "Heartbeat" -> ServerHeartbeat(source)
    /\ served' = Append(served, <<type, source>>)
    /\ last' = Step(type, ServerAddr, source, Idle, queue)
    /\ UNCHANGED server_running
    /\ UNCHANGED clientVars

\* SocketEvent::Packet(packet), the request of a raw socket
ServerPacket(source, type) ==
    /\ ServerMessage(source, type)
    /\ net' = net (+) out'

\* SocketEvent::Packet(packet), a request that a client has sent and the transport
\* delivers, in any order
ServerReceive(packet) ==
    /\ BagIn(packet, net)
    /\ packet.dst = ServerAddr
    /\ ServerMessage(packet.src, packet.msg.type)
    /\ net' = (net (-) Once({packet})) (+) out'

\* a StatusCheck or Queue request one of whose sends fails: the packets of the sends
\* before it are out (the reply, then the fan-out in the HashSet's order, which is any
\* order), and the `?` returns the error from with_socket, before queue.insert
ServerSendFails(source, type) ==
    /\ server_running
    /\ Len(served) < MaxServerEvents
    /\ type \in {"StatusCheck", "Queue"}
    /\ LET queue_clone == queue \ {source}
       IN \/ out' = EmptyBag
          \/ /\ type = "Queue"
             /\ \E sent \in SUBSET queue_clone :
                  /\ sent # queue_clone
                  /\ out' = Once({Packet(ServerAddr, source, PeersMsg(queue_clone))})
                              (+) QueuedFanout(source, sent)
    /\ net' = net (+) out'
    /\ queue' = queue
    /\ server_running' = FALSE
    /\ served' = Append(served, <<type \o "SendFailed", source>>)
    /\ last' = Step(type \o "SendFailed", ServerAddr, source, Idle, queue)
    /\ UNCHANGED clientVars

\* SocketEvent::Packet(packet) whose payload does not deserialize: Err(_) => {}
ServerInvalidPacket(source) ==
    /\ server_running
    /\ Len(served) < MaxServerEvents
    /\ served' = Append(served, <<"Invalid", source>>)
    /\ last' = Step("Invalid", ServerAddr, source, Idle, queue)
    /\ out' = EmptyBag
    /\ UNCHANGED <<queue, net, server_running>>
    /\ UNCHANGED clientVars

\* SocketEvent::Connect(_connect_addr)
ServerConnect(connect_addr) ==
    /\ server_running
    /\ Len(served) < MaxServerEvents
    /\ served' = Append(served, <<"Connect", connect_addr>>)
    /\ last' = Step("Connect", ServerAddr, connect_addr, Idle, queue)
    /\ out' = EmptyBag
    /\ UNCHANGED <<queue, net, server_running>>
    /\ UNCHANGED clientVars

\* the queue after a transport timeout that is ignored
QueueAfterTimeoutIgnored(timeout_addr) == queue

\* queue.remove(&timeout_addr)
QueueAfterTimeout(timeout_addr) == queue \ {timeout_addr}

\* SocketEvent::Timeout(timeout_addr)
ServerTimeout(timeout_addr) ==
    /\ server_running
    /\ Len(served) < MaxServerEvents
    /\ queue' = QueueAfterTimeout(timeout_addr)
    /\ served' = Append(served, <<"Timeout", timeout_addr>>)
    /\ last' = Step("Timeout", ServerAddr, timeout_addr, Idle, queue)
    /\ out' = EmptyBag
    /\ UNCHANGED <<net, server_running>>
    /\ UNCHANGED clientVars

\* the mutexes of a client (ArMu fields)
Mutexes == {"status", "server_connection", "peers", "incoming_challenges",
            "outgoing_challenges"}

\* the two threads of a client: the owner's, and the one Client::new spawns for the handler
Threads == {"owner", "handler"}

\* Client::new: the handler thread has just been spawned, no event has arrived, no
\* command has been sent and no thread is inside a call
InitLoop ==
    /\ threads = [t \in Threads |-> [code |-> <<>>, held |-> {}]]
    /\ event_receiver = [c \in Clients |-> <<>>]
    /\ message_receiver = [c \in Clients |-> <<>>]
    /\ handler = [c \in Clients |->
                    [result |-> "running", at |-> "event_receiver", pending |-> 0,
                     taken |-> 0, closed |-> FALSE]]

\* Client::new, and the server before its loop
Init ==
    /\ queue = {}
    /\ served = <<>>
    /\ server_running = TRUE
    /\ net = EmptyBag
    /\ out = EmptyBag
    /\ last = NoStep
    /\ status = [c \in Clients |-> Idle]
    /\ incoming_challenges = [c \in Clients |-> {}]
    /\ outgoing_challenges = [c \in Clients |-> {}]
    /\ challenging = [c \in Clients |-> {}]
    /\ calls_left = MaxCalls
    /\ start_sent = [c \in Clients |-> {}]
    /\ start_received = [c \in Clients |-> {}]
    /\ peers = [c \in Clients |-> [p \in {} |-> NewPeer]]
    /\ samples = [c \in Clients |-> [p \in Clients |-> <<>>]]
    /\ called = [c \in Clients |-> {}]
    /\ server_connection = [c \in Clients |-> Disconnected]
    /\ now = 0
    /\ packet_sender_connected = [c \in Clients |-> TRUE]
    /\ InitLoop

\* the server's loop, fed by sockets that send it any request in any order
\* (the raw sockets of the server's tests)
NextServer ==
    \/ \E source \in Clients, type \in ClientToServer : ServerPacket(source, type)
    \/ \E a \in Clients : ServerConnect(a)
    \/ \E a \in Clients : ServerTimeout(a)

SpecServer == Init /\ [][NextServer]_vars

\* the same loop with sends that may fail and payloads that may not deserialize
NextServerFaults ==
    \/ \E source \in Clients, type \in ClientToServer : ServerPacket(source, type)
    \/ \E source \in Clients, type \in ClientToServer : ServerSendFails(source, type)
    \/ \E source \in Clients : ServerInvalidPacket(source)
    \/ \E a \in Clients : ServerConnect(a)
    \/ \E a \in Clients : ServerTimeout(a)

SpecServerFaults == Init /\ [][NextServerFaults]_vars

(***************************************************************************)
(* Matchmaking client: the owner's calls.                                  *)
(***************************************************************************)
\* the owner thread of client c is inside no call
OwnerFree(c) == challenging[c] = {}

\* Client::challenge that does nothing unless the status is Queued
ChallengeSendQueuedOnly(c, p) ==
    /\ OwnerFree(c)
    /\ calls_left > 0
    /\ out' = IF status[c] = Queued THEN Once({Packet(c, p, Challenge)}) ELSE EmptyBag
    /\ net' = net (+) out'
    /\ challenging' = [challenging EXCEPT ![c] = IF status[c] = Queued THEN {p} ELSE {}]
    /\ calls_left' = calls_left - 1
    /\ last' = Step("challenge", c, p, status[c], {})
    /\ UNCHANGED <<status, incoming_challenges, outgoing_challenges, start_sent, start_received>>
    /\ called' = [called EXCEPT ![c] = @ \cup {<<"challenge", p>>}]
    /\ UNCHANGED <<peers, samples, server_connection, now, packet_sender_connected>>
    /\ UNCHANGED serverVars
    /\ UNCHANGED loopVars

\* Client::challenge, first half: the Challenge packet is handed to the transport
ChallengeSend(c, p) ==
    /\ OwnerFree(c)
    /\ calls_left > 0
    /\ out' = Once({Packet(c, p, Challenge)})
    /\ net' = net (+) out'
    /\ challenging' = [challenging EXCEPT ![c] = {p}]
    /\ calls_left' = calls_left - 1
    /\ last' = Step("challenge", c, p, status[c], {})
    /\ UNCHANGED <<status, incoming_challenges, outgoing_challenges, start_sent, start_received>>
    /\ called' = [called EXCEPT ![c] = @ \cup {<<"challenge", p>>}]
    /\ UNCHANGED <<peers, samples, server_connection, now, packet_sender_connected>>
    /\ UNCHANGED serverVars
    /\ UNCHANGED loopVars

\* the Peer value the owner passes to challenge(): peers() hands out clones of the
\* table's entries, and a Peer for an address the table lacks is Peer::new
PeerArgument(c, p) ==
    [addr |-> p] @@ (IF p \in DOMAIN peers[c] THEN peers[c][p] ELSE NewPeer)

\* Client::challenge, second half: peer.status = PeerStatus::OutgoingChallenge on the
\* caller's Peer, then self.outgoing_challenges.lock()?.insert(peer.addr)
ChallengeInsert(c) ==
    /\ challenging[c] # {}
    /\ \E p \in challenging[c] :
         /\ outgoing_challenges' = [outgoing_challenges EXCEPT ![c] = @ \cup {p}]
         /\ last' = Step("challenge_insert", c, p, status[c],
                         {[PeerArgument(c, p) EXCEPT !.status = "OutgoingChallenge"]})
    /\ challenging' = [challenging EXCEPT ![c] = {}]
    /\ out' = EmptyBag
    /\ UNCHANGED <<net, status, incoming_challenges, calls_left, start_sent, start_received>>
    /\ UNCHANGED <<peers, samples, called, server_connection, now, packet_sender_connected>>
    /\ UNCHANGED serverVars
    /\ UNCHANGED loopVars

\* Client::accept that takes the accepted peer out of incoming_challenges
AcceptCallConsumes(c, p) ==
    /\ OwnerFree(c)
    /\ calls_left > 0
    /\ calls_left' = calls_left - 1
    /\ out' = IF p \in incoming_challenges[c]
              THEN Once({Packet(c, p, Accept)})
              ELSE EmptyBag
    /\ incoming_challenges' = [incoming_challenges EXCEPT ![c] = @ \ {p}]
    /\ net' = net (+) out'
    /\ last' = Step("accept", c, p, status[c], {})
    /\ UNCHANGED <<status, outgoing_challenges, challenging, start_sent, start_received>>
    /\ called' = IF p \in incoming_challenges[c]
                 THEN [called EXCEPT ![c] = @ \cup {<<"accept", p>>}]
                 ELSE called
    /\ UNCHANGED <<peers, samples, server_connection, now, packet_sender_connected>>
    /\ UNCHANGED serverVars
    /\ UNCHANGED loopVars

\* Client::accept
AcceptCall(c, p) ==
    /\ OwnerFree(c)
    /\ calls_left > 0
    /\ calls_left' = calls_left - 1
    /\ out' = IF p \in incoming_challenges[c]
              THEN Once({Packet(c, p, Accept)})
              ELSE EmptyBag
    /\ net' = net (+) out'
    /\ last' = Step("accept", c, p, status[c], {})
    /\ UNCHANGED <<status, incoming_challenges, outgoing_challenges, challenging,
                   start_sent, start_received>>
    /\ called' = IF p \in incoming_challenges[c]
                 THEN [called EXCEPT ![c] = @ \cup {<<"accept", p>>}]
                 ELSE called
    /\ UNCHANGED <<peers, samples, server_connection, now, packet_sender_connected>>
    /\ UNCHANGED serverVars
    /\ UNCHANGED loopVars

\* Client::decline that leaves incoming_challenges as it is
DeclineCallKeeps(c, addr) ==
    /\ OwnerFree(c)
    /\ calls_left > 0
    /\ calls_left' = calls_left - 1
    /\ out' = IF addr \in incoming_challenges[c]
              THEN Once({Packet(c, addr, Decline)})
              ELSE EmptyBag
    /\ net' = net (+) out'
    /\ last' = Step("decline", c, addr, status[c], {})
    /\ UNCHANGED <<status, incoming_challenges, outgoing_challenges, challenging,
                   start_sent, start_received>>
    /\ UNCHANGED <<peers, samples, called, server_connection, now, packet_sender_connected>>
    /\ UNCHANGED serverVars
    /\ UNCHANGED loopVars

\* Client::decline
DeclineCall(c, addr) ==
    /\ OwnerFree(c)
    /\ calls_left > 0
    /\ calls_left' = calls_left - 1
    /\ out' = IF addr \in incoming_challenges[c]
              THEN Once({Packet(c, addr, Decline)})
              ELSE EmptyBag
    /\ incoming_challenges' = [incoming_challenges EXCEPT ![c] = @ \ {addr}]
    /\ net' = net (+) out'
    /\ last' = Step("decline", c, addr, status[c], {})
    /\ UNCHANGED <<status, outgoing_challenges, challenging, start_sent, start_received>>
    /\ UNCHANGED <<peers, samples, called, server_connection, now, packet_sender_connected>>
    /\ UNCHANGED serverVars
    /\ UNCHANGED loopVars

\* ToServer::Queue, ToServer::Dequeue: a request on the wire
ToServer(type) == [type |-> type]

\* Client::queue without the test of the status
QueueCallAnyStatus(c) ==
    /\ OwnerFree(c)
    /\ calls_left > 0
    /\ calls_left' = calls_left - 1
    /\ out' = Once({Packet(c, ServerAddr, ToServer("Queue"))})
    /\ status' = [status EXCEPT ![c] = QueuePending]
    /\ net' = net (+) out'
    /\ last' = Step("queue", c, ServerAddr, status[c], {})
    /\ UNCHANGED <<incoming_challenges, outgoing_challenges, challenging, start_sent,
                   start_received, peers, samples, called, server_connection, now, packet_sender_connected>>
    /\ UNCHANGED serverVars
    /\ UNCHANGED loopVars

\* Client::queue; its `if let ServerConnection::Disconnected` arm only logs
QueueCall(c) ==
    /\ OwnerFree(c)
    /\ calls_left > 0
    /\ calls_left' = calls_left - 1
    /\ IF status[c] = Idle
       THEN /\ out' = Once({Packet(c, ServerAddr, ToServer("Queue"))})
            /\ status' = [status EXCEPT ![c] = QueuePending]
       ELSE /\ out' = EmptyBag
            /\ status' = status
    /\ net' = net (+) out'
    /\ last' = Step("queue", c, ServerAddr, status[c], {})
    /\ UNCHANGED <<incoming_challenges, outgoing_challenges, challenging, start_sent,
                   start_received, peers, samples, called, server_connection, now, packet_sender_connected>>
    /\ UNCHANGED serverVars
    /\ UNCHANGED loopVars

\* Client::dequeue that leaves the server connection as it is
DequeueCallKeepsConnection(c) ==
    /\ OwnerFree(c)
    /\ calls_left > 0
    /\ calls_left' = calls_left - 1
    /\ IF status[c] \in {QueuePending, Queued}
       THEN /\ out' = Once({Packet(c, ServerAddr, ToServer("Dequeue"))})
            /\ status' = [status EXCEPT ![c] = Idle]
       ELSE /\ out' = EmptyBag
            /\ status' = status
    /\ net' = net (+) out'
    /\ last' = Step("dequeue", c, ServerAddr, status[c], {})
    /\ UNCHANGED <<incoming_challenges, outgoing_challenges, challenging, start_sent,
                   start_received, peers, samples, called, server_connection, now, packet_sender_connected>>
    /\ UNCHANGED serverVars
    /\ UNCHANGED loopVars

\* Client::dequeue that also leaves a pending match
DequeueCallFromPending(c) ==
    /\ OwnerFree(c)
    /\ calls_left > 0
    /\ calls_left' = calls_left - 1
    /\ IF status[c].tag \in {"QueuePending", "Queued", "MatchPending"}
       THEN /\ out' = Once({Packet(c, ServerAddr, ToServer("Dequeue"))})
            /\ status' = [status EXCEPT ![c] = Idle]
            /\ server_connection' = [server_connection EXCEPT ![c] = Disconnected]
       ELSE /\ out' = EmptyBag
            /\ status' = status
            /\ server_connection' = server_connection
    /\ net' = net (+) out'
    /\ last' = Step("dequeue", c, ServerAddr, status[c], {})
    /\ UNCHANGED <<incoming_challenges, outgoing_challenges, challenging, start_sent,
                   start_received, peers, samples, called, now, packet_sender_connected>>
    /\ UNCHANGED serverVars
    /\ UNCHANGED loopVars

\* Client::dequeue
DequeueCall(c) ==
    /\ OwnerFree(c)
    /\ calls_left > 0
    /\ calls_left' = calls_left - 1
    /\ IF status[c] \in {QueuePending, Queued}
       THEN /\ out' = Once({Packet(c, ServerAddr, ToServer("Dequeue"))})
            /\ status' = [status EXCEPT ![c] = Idle]
            /\ server_connection' = [server_connection EXCEPT ![c] = Disconnected]
       ELSE /\ out' = EmptyBag
            /\ status' = status
            /\ server_connection' = server_connection
    /\ net' = net (+) out'
    /\ last' = Step("dequeue", c, ServerAddr, status[c], {})
    /\ UNCHANGED <<incoming_challenges, outgoing_challenges, challenging, start_sent,
                   start_received, peers, samples, called, now, packet_sender_connected>>
    /\ UNCHANGED serverVars
    /\ UNCHANGED loopVars

\* packet_sender.send(..)? returns Err: the channel has lost its receiver, nothing
\* is sent and the call returns at the `?`
SendFails(c, op, who) ==
    /\ OwnerFree(c)
    /\ calls_left > 0
    /\ calls_left' = calls_left - 1
    /\ packet_sender_connected' = [packet_sender_connected EXCEPT ![c] = FALSE]
    /\ out' = EmptyBag
    /\ last' = Step(op \o "SendFailed", c, who, status[c], {})
    /\ UNCHANGED <<net, status, outgoing_challenges, challenging, start_sent, start_received,
                   peers, samples, called, server_connection, now>>
    /\ UNCHANGED serverVars
    /\ UNCHANGED loopVars

\* Client::queue, send fails: returns before *status = Status::QueuePending
QueueCallSendFails(c) ==
    /\ status[c] = Idle
    /\ SendFails(c, "queue", ServerAddr)
    /\ UNCHANGED incoming_challenges

\* Client::dequeue, send fails: returns before *status = Status::Idle
DequeueCallSendFails(c) ==
    /\ status[c] \in {QueuePending, Queued}
    /\ SendFails(c, "dequeue", ServerAddr)
    /\ UNCHANGED incoming_challenges

\* Client::challenge, send fails: returns before the insert
ChallengeSendFails(c, p) ==
    /\ SendFails(c, "challenge", p)
    /\ UNCHANGED incoming_challenges

\* Client::accept, send fails
AcceptCallSendFails(c, p) ==
    /\ p \in incoming_challenges[c]
    /\ SendFails(c, "accept", p)
    /\ UNCHANGED incoming_challenges

\* Client::decline, send fails: incoming_challenges.remove(&addr) has already run
DeclineCallSendFails(c, addr) ==
    /\ addr \in incoming_challenges[c]
    /\ SendFails(c, "decline", addr)
    /\ incoming_challenges' = [incoming_challenges EXCEPT ![c] = @ \ {addr}]

\* a step of client c that sends has a connected packet_sender
Delivered(c) == out' # EmptyBag => packet_sender_connected[c]

\* Client::check_match: Some(peer) as {peer}, None as {}
check_match(c) == IF status[c].tag = "MatchConfirmed" THEN {status[c].addr} ELSE {}

(***************************************************************************)
(* Matchmaking client: the handler thread, one packet of a peer per step.  *)
(***************************************************************************)
\* HandlerChallenge that answers the challenge itself, without the owner
HandlerChallengeAutoAccept(c, s) ==
    /\ incoming_challenges' = [incoming_challenges EXCEPT ![c] = @ \cup {s}]
    /\ out' = Once({Packet(c, s, Accept)})
    /\ UNCHANGED <<status, outgoing_challenges, start_sent, start_received>>

\* Ok(FromClient::Challenge)
HandlerChallenge(c, s) ==
    /\ incoming_challenges' = [incoming_challenges EXCEPT ![c] = @ \cup {s}]
    /\ out' = EmptyBag
    /\ UNCHANGED <<status, outgoing_challenges, start_sent, start_received>>

\* HandlerAccept that sets MatchPending and sends no Start
HandlerAcceptNoStart(c, s) ==
    /\ out' = EmptyBag
    /\ status' = IF status[c] = Queued /\ s \in outgoing_challenges[c]
                 THEN [status EXCEPT ![c] = MatchPending(s)]
                 ELSE status
    /\ UNCHANGED <<incoming_challenges, outgoing_challenges, start_sent, start_received>>

\* HandlerAccept without the test of the status
HandlerAcceptAnyStatus(c, s) ==
    IF s \in outgoing_challenges[c]
    THEN /\ out' = Once({Packet(c, s, Start(0))})
         /\ start_sent' = [start_sent EXCEPT ![c] = @ \cup {s}]
         /\ status' = [status EXCEPT ![c] = MatchPending(s)]
         /\ UNCHANGED <<incoming_challenges, outgoing_challenges, start_received>>
    ELSE /\ out' = EmptyBag
         /\ UNCHANGED <<status, incoming_challenges, outgoing_challenges, start_sent,
                        start_received>>

\* HandlerAccept without the test of outgoing_challenges
HandlerAcceptUnsolicited(c, s) ==
    IF status[c] = Queued
    THEN /\ out' = Once({Packet(c, s, Start(0))})
         /\ start_sent' = [start_sent EXCEPT ![c] = @ \cup {s}]
         /\ status' = [status EXCEPT ![c] = MatchPending(s)]
         /\ UNCHANGED <<incoming_challenges, outgoing_challenges, start_received>>
    ELSE /\ out' = EmptyBag
         /\ UNCHANGED <<status, incoming_challenges, outgoing_challenges, start_sent,
                        start_received>>

\* Ok(FromClient::Accept)
HandlerAccept(c, s) ==
    IF status[c] = Queued /\ s \in outgoing_challenges[c]
    THEN /\ out' = Once({Packet(c, s, Start(0))})
         /\ start_sent' = [start_sent EXCEPT ![c] = @ \cup {s}]
         /\ status' = [status EXCEPT ![c] = MatchPending(s)]
         /\ UNCHANGED <<incoming_challenges, outgoing_challenges, start_received>>
    ELSE /\ out' = EmptyBag
         /\ UNCHANGED <<status, incoming_challenges, outgoing_challenges, start_sent,
                        start_received>>

\* HandlerDecline that reverts to Queued from a match pending with anyone
HandlerDeclineAnyPending(c, s) ==
    /\ outgoing_challenges' = [outgoing_challenges EXCEPT ![c] = @ \ {s}]
    /\ status' = IF status[c].tag = "MatchPending"
                 THEN [status EXCEPT ![c] = Queued]
                 ELSE status
    /\ out' = EmptyBag
    /\ UNCHANGED <<incoming_challenges, start_sent, start_received>>

\* HandlerDecline that removes the sender from outgoing_challenges and leaves the status
HandlerDeclineKeepsPending(c, s) ==
    /\ outgoing_challenges' = [outgoing_challenges EXCEPT ![c] = @ \ {s}]
    /\ out' = EmptyBag
    /\ UNCHANGED <<status, incoming_challenges, start_sent, start_received>>

\* Ok(FromClient::Decline)
HandlerDecline(c, s) ==
    /\ outgoing_challenges' = [outgoing_challenges EXCEPT ![c] = @ \ {s}]
    /\ status' = IF status[c] = MatchPending(s)
                 THEN [status EXCEPT ![c] = Queued]
                 ELSE status
    /\ out' = EmptyBag
    /\ UNCHANGED <<incoming_challenges, start_sent, start_received>>

\* HandlerStart that confirms from Queued without the reply Start(0)
HandlerStartNoReply(c, s) ==
    /\ start_received' = [start_received EXCEPT ![c] = @ \cup {s}]
    /\ out' = EmptyBag
    /\ IF status[c] = Queued
       THEN /\ incoming_challenges' = [incoming_challenges EXCEPT ![c] = {}]
            /\ outgoing_challenges' = [outgoing_challenges EXCEPT ![c] = {}]
            /\ status' = [status EXCEPT ![c] = MatchConfirmed(s)]
            /\ UNCHANGED start_sent
       ELSE /\ status' = IF status[c] = MatchPending(s)
                         THEN [status EXCEPT ![c] = MatchConfirmed(s)]
                         ELSE status
            /\ UNCHANGED <<incoming_challenges, outgoing_challenges, start_sent>>

\* HandlerStart that confirms from a match pending with anyone
HandlerStartAnyPending(c, s) ==
    /\ start_received' = [start_received EXCEPT ![c] = @ \cup {s}]
    /\ IF status[c] = Queued
       THEN /\ out' = Once({Packet(c, s, Start(0))})
            /\ start_sent' = [start_sent EXCEPT ![c] = @ \cup {s}]
            /\ incoming_challenges' = [incoming_challenges EXCEPT ![c] = {}]
            /\ outgoing_challenges' = [outgoing_challenges EXCEPT ![c] = {}]
            /\ status' = [status EXCEPT ![c] = MatchConfirmed(s)]
       ELSE /\ out' = EmptyBag
            /\ status' = IF status[c].tag = "MatchPending"
                         THEN [status EXCEPT ![c] = MatchConfirmed(s)]
                         ELSE status
            /\ UNCHANGED <<incoming_challenges, outgoing_challenges, start_sent>>

\* Ok(FromClient::Start(time))
HandlerStart(c, s) ==
    /\ start_received' = [start_received EXCEPT ![c] = @ \cup {s}]
    /\ IF status[c] = Queued
       THEN /\ out' = Once({Packet(c, s, Start(0))})
            /\ start_sent' = [start_sent EXCEPT ![c] = @ \cup {s}]
            /\ incoming_challenges' = [incoming_challenges EXCEPT ![c] = {}]
            /\ outgoing_challenges' = [outgoing_challenges EXCEPT ![c] = {}]
            /\ status' = [status EXCEPT ![c] = MatchConfirmed(s)]
       ELSE /\ out' = EmptyBag
            /\ status' = IF status[c] = MatchPending(s)
                         THEN [status EXCEPT ![c] = MatchConfirmed(s)]
                         ELSE status
            /\ UNCHANGED <<incoming_challenges, outgoing_challenges, start_sent>>

\* Ok(FromClient::Ping(remote_time))
HandlerPing(c, s, remote_time) ==
    /\ out' = Once({Packet(c, s, PingResponse(remote_time))})
    /\ UNCHANGED <<status, incoming_challenges, outgoing_challenges, start_sent,
                   start_received, peers, samples>>

\* Ok(FromClient::PingResponse(past_local_time)), as a build without overflow checks
\* computes it: the subtraction of u128 values wraps
HandlerPingResponse(c, s, past_local_time) ==
    /\ LET local_time == now
           latency == ((local_time - past_local_time) % U128) \div 2
       IN IF s \in DOMAIN peers[c]
          THEN /\ peers' = [peers EXCEPT ![c][s] = add_ping(@, latency)]
               /\ samples' = [samples EXCEPT ![c][s] = Append(@, latency)]
          ELSE UNCHANGED <<peers, samples>>
    /\ out' = EmptyBag
    /\ UNCHANGED <<status, incoming_challenges, outgoing_challenges, start_sent,
                   start_received>>

\* the end of a handler iteration: a Connecting whose time limit has passed becomes
\* Disconnected
ConnectingDeadline(c) ==
    server_connection' =
        [server_connection EXCEPT
            ![c] = IF @.tag = "Connecting" /\ now > @.time_limit THEN Disconnected ELSE @]

\* the match on a payload of address s that deserializes as FromClient
FromClientArm(c, s, msg) ==
    CASE msg.type = "Challenge" -> HandlerChallenge(c, s) /\ UNCHANGED <<peers, samples>>
      [] msg.type = "Accept" -> HandlerAccept(c, s) /\ UNCHANGED <<peers, samples>>
      [] msg.type = "Decline" -> HandlerDecline(c, s) /\ UNCHANGED <<peers, samples>>
      [] msg.type = "Start" -> HandlerStart(c, s) /\ UNCHANGED <<peers, samples>>
      [] msg.type = "Ping" -> HandlerPing(c, s, msg.time)
      [] msg.type = "PingResponse" -> HandlerPingResponse(c, s, msg.time)

\* Ok(SocketEvent::Packet(packet)) with packet.addr() != server_addr
HandlerPacket(c, packet) ==
    /\ BagIn(packet, net)
    /\ packet.dst = c
    /\ packet.src # ServerAddr
    /\ FromClientArm(c, packet.src, packet.msg)
    /\ net' = (net (-) Once({packet})) (+) out'
    /\ last' = Step(packet.msg.type, c, packet.src, status[c], {})
    /\ ConnectingDeadline(c)
    /\ UNCHANGED <<challenging, calls_left, called, now, packet_sender_connected>>
    /\ UNCHANGED serverVars
    /\ UNCHANGED loopVars

\* Ok(FromServer::Peers(new_peers)): peers.insert(peer, Peer::new(peer)) for every
\* peer of new_peers, which replaces the entry of an address the table has already
HandlerPeers(c, new_peers) ==
    /\ peers' = [peers EXCEPT ![c] =
                    [a \in (DOMAIN @) \cup new_peers |->
                        IF a \in new_peers THEN NewPeer ELSE @[a]]]
    /\ samples' = [samples EXCEPT ![c] =
                      [a \in DOMAIN @ |-> IF a \in new_peers THEN <<>> ELSE @[a]]]
    /\ status' = IF status[c] = QueuePending
                 THEN [status EXCEPT ![c] = Queued]
                 ELSE status

\* Ok(FromServer::Queued(addr))
HandlerQueued(c, addr) ==
    /\ peers' = [peers EXCEPT ![c] =
                    [a \in (DOMAIN @) \cup {addr} |-> IF a = addr THEN NewPeer ELSE @[a]]]
    /\ samples' = [samples EXCEPT ![c][addr] = <<>>]
    /\ status' = status

\* Ok(FromServer::Dequeued(addr))
HandlerDequeued(c, addr) ==
    /\ peers' = [peers EXCEPT ![c] = [a \in (DOMAIN @) \ {addr} |-> @[a]]]
    /\ samples' = [samples EXCEPT ![c][addr] = <<>>]
    /\ status' = status

\* the match on a payload of the server's address deserialized as FromServer; its
\* last arm takes Alive and every payload that fails to deserialize
FromServerArm(c, msg) ==
    CASE msg.type = "Peers" -> HandlerPeers(c, msg.peers)
      [] msg.type = "Queued" -> HandlerQueued(c, msg.addr)
      [] msg.type = "Dequeued" -> HandlerDequeued(c, msg.addr)
      [] OTHER -> UNCHANGED <<peers, samples, status>>

\* the addresses a message of the server names
Named(msg) ==
    CASE msg.type = "Peers" -> msg.peers
      [] msg.type \in {"Queued", "Dequeued"} -> {msg.addr}
      [] OTHER -> {}

\* Ok(SocketEvent::Packet(packet)) with packet.addr() == server_addr
HandlerServerPacket(c, packet) ==
    /\ BagIn(packet, net)
    /\ packet.dst = c
    /\ packet.src = ServerAddr
    /\ FromServerArm(c, packet.msg)
    /\ last' = Step(packet.msg.type, c, ServerAddr, status[c], Named(packet.msg))
    /\ out' = EmptyBag
    /\ net' = net (-) Once({packet})
    /\ ConnectingDeadline(c)
    /\ UNCHANGED <<incoming_challenges, outgoing_challenges, challenging, calls_left,
                   start_sent, start_received, called, now, packet_sender_connected>>
    /\ UNCHANGED serverVars
    /\ UNCHANGED loopVars

\* Ok(SocketEvent::Connect(addr)) with addr == server_addr
HandlerConnect(c) ==
    /\ server_connection' = [server_connection EXCEPT ![c] = Connected]
    /\ last' = Step("Connect", c, ServerAddr, status[c], {})
    /\ out' = EmptyBag
    /\ UNCHANGED <<net, status, incoming_challenges, outgoing_challenges, challenging,
                   calls_left, start_sent, start_received, peers, samples, called, now, packet_sender_connected>>
    /\ UNCHANGED serverVars
    /\ UNCHANGED loopVars

\* Ok(SocketEvent::Timeout(addr)) with addr == server_addr
HandlerTimeout(c) ==
    /\ server_connection' = [server_connection EXCEPT ![c] = Disconnected]
    /\ last' = Step("Timeout", c, ServerAddr, status[c], {})
    /\ out' = EmptyBag
    /\ UNCHANGED <<net, status, incoming_challenges, outgoing_challenges, challenging,
                   calls_left, start_sent, start_received, peers, samples, called, now, packet_sender_connected>>
    /\ UNCHANGED serverVars
    /\ UNCHANGED loopVars

(***************************************************************************)
(* The clients after matchmaking has brought them together: every client   *)
(* has queued, the server has admitted them in turn and every server       *)
(* message has been received, so every client is Queued.                   *)
(***************************************************************************)
QueuedWith(budget) ==
    /\ queue = Clients
    /\ served = [i \in Clients |-> <<"Queue", i>>]
    /\ server_running = TRUE
    /\ net = EmptyBag
    /\ out = EmptyBag
    /\ last = NoStep
    /\ status = [c \in Clients |-> Queued]
    /\ incoming_challenges = [c \in Clients |-> {}]
    /\ outgoing_challenges = [c \in Clients |-> {}]
    /\ challenging = [c \in Clients |-> {}]
    /\ calls_left = budget
    /\ start_sent = [c \in Clients |-> {}]
    /\ start_received = [c \in Clients |-> {}]
    /\ peers = [c \in Clients |-> [p \in Clients \ {c} |-> NewPeer]]
    /\ samples = [c \in Clients |-> [p \in Clients |-> <<>>]]
    /\ called = [c \in Clients |-> {}]
    /\ server_connection = [c \in Clients |-> Connected]
    /\ now = 0
    /\ packet_sender_connected = [c \in Clients |-> TRUE]
    /\ InitLoop

InitQueued == QueuedWith(MaxCalls)

InitQueuedLong == QueuedWith(MaxLongCalls)

\* the handler threads: any packet in flight may be the next one received
HandlerStep == \E c \in Clients : \E packet \in BagToSet(net) : HandlerPacket(c, packet)

\* owners that challenge, accept and decline in any order, and the handlers
NextMatch ==
    \/ \E c \in Clients : \E p \in Clients \ {c} : ChallengeSend(c, p)
    \/ \E c \in Clients : ChallengeInsert(c)
    \/ \E c \in Clients : \E p \in Clients \ {c} : AcceptCall(c, p)
    \/ \E c \in Clients : \E p \in Clients \ {c} : DeclineCall(c, p)
    \/ HandlerStep

SpecMatch == InitQueued /\ [][NextMatch]_vars

\* the same clients with owners that make more calls
SpecMatchLong == InitQueuedLong /\ [][NextMatch]_vars

(***************************************************************************)
(* Two queued clients whose owners challenge and accept (no decline), with *)
(* a transport that loses nothing: every packet in flight is received, and *)
(* a challenge() call that has sent its packet returns.                    *)
(***************************************************************************)
Pair == {1, 2}

\* the handler threads of the pair
PairHandlerStep == \E c \in Pair : \E packet \in BagToSet(net) : HandlerPacket(c, packet)

\* the second halves of the pair's challenge() calls
PairChallengeInsert == \E c \in Pair : ChallengeInsert(c)

NextPair ==
    \/ \E c \in Pair : \E p \in Pair \ {c} : ChallengeSend(c, p)
    \/ PairChallengeInsert
    \/ \E c \in Pair : \E p \in Pair \ {c} : AcceptCall(c, p)
    \/ PairHandlerStep

SpecPair ==
    InitQueued /\ [][NextPair]_vars /\ WF_vars(PairHandlerStep) /\ WF_vars(PairChallengeInsert)

(***************************************************************************)
(* The pair's latency measurement: time passes, the ping timers fire, and  *)
(* the unreliable Ping and PingResponse packets are received or lost.      *)
(***************************************************************************)
\* clients 1 and 2 have queued and are Queued, each with the other in its table; the
\* other clients have not queued
InitPairQueued ==
    /\ queue = Pair
    /\ served = [i \in Pair |-> <<"Queue", i>>]
    /\ server_running = TRUE
    /\ net = EmptyBag
    /\ out = EmptyBag
    /\ last = NoStep
    /\ status = [c \in Clients |-> IF c \in Pair THEN Queued ELSE Idle]
    /\ incoming_challenges = [c \in Clients |-> {}]
    /\ outgoing_challenges = [c \in Clients |-> {}]
    /\ challenging = [c \in Clients |-> {}]
    /\ calls_left = MaxCalls
    /\ start_sent = [c \in Clients |-> {}]
    /\ start_received = [c \in Clients |-> {}]
    /\ peers = [c \in Clients |-> [p \in (IF c \in Pair THEN Pair \ {c} ELSE {}) |-> NewPeer]]
    /\ samples = [c \in Clients |-> [p \in Clients |-> <<>>]]
    /\ called = [c \in Clients |-> {}]
    /\ server_connection = [c \in Clients |-> IF c \in Pair THEN Connected ELSE Disconnected]
    /\ now = 0
    /\ packet_sender_connected = [c \in Clients |-> TRUE]
    /\ InitLoop

\* the clock
Tick ==
    /\ now < MaxTime
    /\ now' = now + 1
    /\ last' = Step("tick", ServerAddr, ServerAddr, Idle, {})
    /\ out' = EmptyBag
    /\ UNCHANGED <<net, status, incoming_challenges, outgoing_challenges, challenging,
                   calls_left, start_sent, start_received, peers, samples, called,
                   server_connection, packet_sender_connected>>
    /\ UNCHANGED serverVars
    /\ UNCHANGED loopVars

\* the number of Pings and PingResponses in flight
PingsInFlight ==
    LET S == {x \in BagToSet(net) : x.msg.type \in {"Ping", "PingResponse"}}
        count[T \in SUBSET S] ==
            IF T = {} THEN 0
            ELSE LET x == CHOOSE y \in T : TRUE
                 IN CopiesIn(x, net) + count[T \ {x}]
    IN count[S]

\* the number of latency samples taken so far
SamplesTaken ==
    LET S == Clients \X Clients
        count[T \in SUBSET S] ==
            IF T = {} THEN 0
            ELSE LET x == CHOOSE y \in T : TRUE
                 IN Len(samples[x[1]][x[2]]) + count[T \ {x}]
    IN count[S]

\* a handler iteration that finds no socket event and the ping timer elapsed: one
\* Ping with the elapsed time to every peer of the table.  The timer's period is left
\* open: the timer may have elapsed at any iteration.
HandlerPingTimer(c) ==
    /\ SamplesTaken + PingsInFlight + Cardinality(DOMAIN peers[c]) <= MaxPings
    /\ out' = Once({Packet(c, p, Ping(now)) : p \in DOMAIN peers[c]})
    /\ net' = net (+) out'
    /\ last' = Step("ping_timer", c, c, status[c], {})
    /\ ConnectingDeadline(c)
    /\ UNCHANGED <<status, incoming_challenges, outgoing_challenges, challenging,
                   calls_left, start_sent, start_received, peers, samples, called, now, packet_sender_connected>>
    /\ UNCHANGED serverVars
    /\ UNCHANGED loopVars

\* Packet::unreliable: a Ping or a PingResponse in flight is lost
Lose(packet) ==
    /\ BagIn(packet, net)
    /\ packet.msg.type \in {"Ping", "PingResponse"}
    /\ net' = net (-) Once({packet})
    /\ out' = EmptyBag
    /\ last' = Step("lost", packet.dst, packet.src, Idle, {})
    /\ UNCHANGED clientVars
    /\ UNCHANGED serverVars
    /\ UNCHANGED loopVars

NextPing ==
    \/ Tick
    \/ \E c \in Pair : HandlerPingTimer(c)
    \/ PairHandlerStep
    \/ \E packet \in BagToSet(net) : Lose(packet)

SpecPing == InitPairQueued /\ [][NextPing]_vars

(***************************************************************************)
(* The lobby: the pair's owners queue and dequeue, the server receives     *)
(* their requests in any order and answers them, and the handlers process  *)
(* the server's messages and measure latencies.                            *)
(***************************************************************************)
\* the server's loop: any request in flight may be the next one it receives
ServerReceiveStep == \E packet \in BagToSet(net) : ServerReceive(packet)

\* the pair's handler threads, for the packets of the server
PairHandlerServerStep ==
    \E c \in Pair : \E packet \in BagToSet(net) : HandlerServerPacket(c, packet)

NextLobby ==
    \/ \E c \in Pair : QueueCall(c)
    \/ \E c \in Pair : DequeueCall(c)
    \/ ServerReceiveStep
    \/ PairHandlerServerStep
    \/ \E c \in Pair : HandlerPingTimer(c)
    \/ PairHandlerStep

\* the lobby when the pair has queued
SpecLobby == InitPairQueued /\ [][NextLobby]_vars

\* the lobby from the construction of the clients
SpecLobbyNew == Init /\ [][NextLobby]_vars

(***************************************************************************)
(* The same pair with owners that make every call of the client in any     *)
(* order, and a transport that reports the server connected or timed out   *)
(* at any time.  The requests sent to the server stay in flight.           *)
(***************************************************************************)
NextOwner ==
    \/ \E c \in Pair : QueueCall(c)
    \/ \E c \in Pair : DequeueCall(c)
    \/ \E c \in Pair : \E p \in Pair \ {c} : ChallengeSend(c, p)
    \/ \E c \in Pair : ChallengeInsert(c)
    \/ \E c \in Pair : \E p \in Pair \ {c} : AcceptCall(c, p)
    \/ \E c \in Pair : \E p \in Pair \ {c} : DeclineCall(c, p)
    \/ PairHandlerStep
    \/ \E c \in Pair : HandlerConnect(c)
    \/ \E c \in Pair : HandlerTimeout(c)

SpecOwner == InitQueued /\ [][NextOwner]_vars

(***************************************************************************)
(* The same pair and owners, with a packet_sender whose channel can lose   *)
(* its receiver at any time: the send of the call that finds it so fails,  *)
(* and so does every later one.  The steps follow a client up to the       *)
(* first send its handler would make after that.                           *)
(***************************************************************************)
NextOwnerFaults ==
    \/ \E c \in Pair : QueueCall(c) /\ Delivered(c)
    \/ \E c \in Pair : DequeueCall(c) /\ Delivered(c)
    \/ \E c \in Pair : \E p \in Pair \ {c} : ChallengeSend(c, p) /\ Delivered(c)
    \/ \E c \in Pair : ChallengeInsert(c)
    \/ \E c \in Pair : \E p \in Pair \ {c} : AcceptCall(c, p) /\ Delivered(c)
    \/ \E c \in Pair : \E p \in Pair \ {c} : DeclineCall(c, p) /\ Delivered(c)
    \/ \E c \in Pair : QueueCallSendFails(c)
    \/ \E c \in Pair : DequeueCallSendFails(c)
    \/ \E c \in Pair : \E p \in Pair \ {c} : ChallengeSendFails(c, p)
    \/ \E c \in Pair : \E p \in Pair \ {c} : AcceptCallSendFails(c, p)
    \/ \E c \in Pair : \E p \in Pair \ {c} : DeclineCallSendFails(c, p)
    \/ \E c \in Pair : \E packet \in BagToSet(net) : HandlerPacket(c, packet) /\ Delivered(c)

SpecOwnerFaults == InitQueued /\ [][NextOwnerFaults]_vars

(***************************************************************************)
(* The handler's loop, statement by statement, for one client: the events  *)
(* its socket delivers are any packets of any address, connects and        *)
(* timeouts; the socket's polling thread may end, after which every send   *)
(* fails; the owner challenges and closes.                                 *)
(***************************************************************************)
\* the variants of ClientToClient and of ServerToClient in the order of their
\* declarations: bincode writes a variant as its position
FromClientTypes == <<"Ping", "PingResponse", "Challenge", "Accept", "Decline", "Start">>
FromServerTypes == <<"Alive", "Peers", "Queued", "Dequeued">>

\* the variants of an enum
Range(types) == {types[i] : i \in 1 .. Len(types)}

\* the position of a variant
VariantIndex(types, type) == CHOOSE i \in 1 .. Len(types) : types[i] = type

\* the timestamps of the model
Times == 0 .. MaxTime

\* the messages of each enum
ClientToClientValues ==
    {Challenge, Accept, Decline, Start(0), Ping(0)} \cup {PingResponse(t) : t \in Times}
ServerToClientValues ==
    {Alive} \cup {PeersMsg(S) : S \in SUBSET Clients} \cup {QueuedMsg(a) : a \in Clients}
    \cup {DequeuedMsg(a) : a \in Clients}

\* bincode::deserialize returning Err
Err == [type |-> "Err"]

\* what the payload of a message can deserialize to as another enum: an error, or a
\* value of the variant at the same position, whose fields are read from the bytes
\* of the payload's fields
Reinterpreted(payload, from, to, values) ==
    {Err} \cup {m \in values :
                 /\ VariantIndex(from, payload.type) <= Len(to)
                 /\ m.type = to[VariantIndex(from, payload.type)]}

\* bincode::deserialize::<FromClient>(packet.payload())
deserializeFromClient(payload) ==
    IF payload \in ClientToClientValues
    THEN {payload}
    ELSE Reinterpreted(payload, FromServerTypes, FromClientTypes, ClientToClientValues)

\* bincode::deserialize::<FromServer>(packet.payload())
deserializeFromServer(payload) ==
    IF payload \in ServerToClientValues
    THEN {payload}
    ELSE Reinterpreted(payload, FromClientTypes, FromServerTypes, ServerToClientValues)

\* laminar::SocketEvent
PacketEvent(addr, payload) == [event |-> "Packet", addr |-> addr, payload |-> payload]
ConnectEvent(addr) == [event |-> "Connect", addr |-> addr, payload |-> Err]
TimeoutEvent(addr) == [event |-> "Timeout", addr |-> addr, payload |-> Err]

\* the events the socket of client c can deliver: any payload from the server's
\* address and from the peer's
SocketEvents(c) ==
    LET Addrs == (Pair \ {c}) \cup {ServerAddr} IN
    {PacketEvent(a, m) : a \in Addrs, m \in ClientToClientValues \cup ServerToClientValues}
    \cup {ConnectEvent(a) : a \in Addrs} \cup {TimeoutEvent(a) : a \in Addrs}

\* the events of a handshake with the peer and of the server connection
HandshakeEvents(c) ==
    {PacketEvent(p, m) : p \in Pair \ {c}, m \in {Challenge, Accept, Decline, Start(0), Ping(0)}}
    \cup {ConnectEvent(ServerAddr), TimeoutEvent(ServerAddr)}

\* the socket puts an event into the channel of event_receiver
SocketEventArrives(c, e) ==
    /\ handler[c].taken + Len(event_receiver[c]) < MaxEvents
    /\ event_receiver' = [event_receiver EXCEPT ![c] = Append(@, e)]
    /\ last' = Step("arrives", c, e.addr, status[c], {})
    /\ out' = EmptyBag
    /\ UNCHANGED <<net, threads, message_receiver, handler>>
    /\ UNCHANGED <<status, incoming_challenges, outgoing_challenges, challenging,
                   calls_left, start_sent, start_received, peers, samples, called,
                   server_connection, now, packet_sender_connected>>
    /\ UNCHANGED serverVars

\* socket.start_polling() ends and drops the socket: the channel of packet_sender
\* loses its receiver
PollingStops(c) ==
    /\ packet_sender_connected[c]
    /\ packet_sender_connected' = [packet_sender_connected EXCEPT ![c] = FALSE]
    /\ last' = Step("polling_stops", c, c, status[c], {})
    /\ out' = EmptyBag
    /\ UNCHANGED <<net, threads, event_receiver, message_receiver, handler>>
    /\ UNCHANGED <<status, incoming_challenges, outgoing_challenges, challenging,
                   calls_left, start_sent, start_received, peers, samples, called,
                   server_connection, now>>
    /\ UNCHANGED serverVars

\* Client::close: Message::Quit goes to the handler, if its thread still has the
\* receiver; the Client is consumed
Close(c) ==
    /\ OwnerFree(c)
    /\ ~handler[c].closed
    /\ message_receiver' = [message_receiver EXCEPT
                               ![c] = IF handler[c].result = "running"
                                      THEN Append(@, "Quit") ELSE @]
    /\ handler' = [handler EXCEPT ![c].closed = TRUE]
    /\ last' = Step("close", c, c, status[c], {})
    /\ out' = EmptyBag
    /\ UNCHANGED <<net, threads, event_receiver>>
    /\ UNCHANGED <<status, incoming_challenges, outgoing_challenges, challenging,
                   calls_left, start_sent, start_received, peers, samples, called,
                   server_connection, now, packet_sender_connected>>
    /\ UNCHANGED serverVars

\* the handler of c is in its loop, at the statement named
At(c, statement) == handler[c].result = "running" /\ handler[c].at = statement

\* the state the arms of the handler assign
armVars == <<status, incoming_challenges, outgoing_challenges, start_sent, start_received,
             peers, samples>>

\* the arm of msg from s sends a packet
ArmSends(c, s, msg) ==
    \/ msg.type = "Ping"
    \/ msg.type = "Start" /\ status[c] = Queued
    \/ msg.type = "Accept" /\ status[c] = Queued /\ s \in outgoing_challenges[c]

\* local_time - past_local_time with past_local_time ahead of the clock
Underflows(c, s, msg) ==
    msg.type = "PingResponse" /\ s \in DOMAIN peers[c] /\ msg.time > now

\* the handler has taken the first event of event_receiver and its arm has ended
\* with result; pending counts the events that were waiting with the one taken
Took(c, result) ==
    handler' = [handler EXCEPT
                   ![c] = [@ EXCEPT !.result = result, !.at = "message_receiver",
                                    !.taken = @ + 1,
                                    !.pending = Len(event_receiver[c]) - 1]]

\* a packet of another address than the server's, deserialized as FromClient: Err(_)
\* does nothing; a send that fails returns the error from the handler; the arm runs;
\* the subtraction of a PingResponse ahead of the clock wraps (in the arm) or, in a
\* build with overflow checks, panics
LoopPeerPacket(c, s, msg) ==
    /\ \/ /\ msg = Err
          /\ out' = EmptyBag
          /\ UNCHANGED armVars
          /\ Took(c, "running")
          /\ last' = Step("Err", c, s, status[c], {})
       \/ /\ msg # Err
          /\ ArmSends(c, s, msg) /\ ~packet_sender_connected[c]
          /\ out' = EmptyBag
          /\ UNCHANGED armVars
          /\ Took(c, "Err")
          /\ last' = Step(msg.type \o "SendFailed", c, s, status[c], {})
       \/ /\ msg # Err
          /\ ArmSends(c, s, msg) => packet_sender_connected[c]
          /\ FromClientArm(c, s, msg)
          /\ Took(c, "running")
          /\ last' = Step(msg.type, c, s, status[c],
                          IF msg.type = "PingResponse" THEN {msg.time} ELSE {})
       \/ /\ msg # Err
          /\ Underflows(c, s, msg)
          /\ out' = EmptyBag
          /\ UNCHANGED armVars
          /\ Took(c, "panicked")
          /\ last' = Step(msg.type, c, s, status[c], {msg.time})
    /\ UNCHANGED server_connection

\* a packet of the server's address, deserialized as FromServer
LoopServerPacket(c, msg) ==
    /\ FromServerArm(c, msg)
    /\ out' = EmptyBag
    /\ Took(c, "running")
    /\ last' = Step(msg.type, c, ServerAddr, status[c], Named(msg))
    /\ UNCHANGED <<incoming_challenges, outgoing_challenges, start_sent, start_received,
                   server_connection>>

\* SocketEvent::Connect(addr) and SocketEvent::Timeout(addr)
LoopConnection(c, e) ==
    /\ server_connection' =
           IF e.addr = ServerAddr
           THEN [server_connection EXCEPT
                    ![c] = IF e.event = "Connect" THEN Connected ELSE Disconnected]
           ELSE server_connection
    /\ out' = EmptyBag
    /\ Took(c, "running")
    /\ last' = Step(e.event, c, e.addr, status[c], {})
    /\ UNCHANGED armVars

\* FromServerAddress that goes by what the payload is
FromServerPayload(e) == e.payload \in ServerToClientValues

\* the message set the handler deserializes the packet of event e as: if
\* packet.addr() != server_addr { FromClient } else { FromServer }
FromServerAddress(e) == e.addr = ServerAddr

\* match event_receiver.try_recv() with an event: one event is taken
LoopEvent(c) ==
    /\ At(c, "event_receiver")
    /\ event_receiver[c] # <<>>
    /\ LET e == Head(event_receiver[c]) IN
         /\ CASE e.event = "Packet" /\ ~FromServerAddress(e) ->
                   \E msg \in deserializeFromClient(e.payload) :
                       LoopPeerPacket(c, e.addr, msg)
              [] e.event = "Packet" /\ FromServerAddress(e) ->
                   \E msg \in deserializeFromServer(e.payload) : LoopServerPacket(c, msg)
              [] OTHER -> LoopConnection(c, e)
    /\ event_receiver' = [event_receiver EXCEPT ![c] = Tail(@)]
    /\ net' = net (+) out'
    /\ UNCHANGED <<threads, message_receiver, challenging, calls_left, called, now,
                   packet_sender_connected>>
    /\ UNCHANGED serverVars

\* match event_receiver.try_recv() with no event: Err(_) => {}
LoopNoEvent(c) ==
    /\ At(c, "event_receiver")
    /\ event_receiver[c] = <<>>
    /\ handler' = [handler EXCEPT ![c].at = "message_receiver", ![c].pending = 0]
    /\ last' = Step("no_event", c, c, status[c], {})
    /\ out' = EmptyBag
    /\ UNCHANGED <<net, threads, event_receiver, message_receiver>>
    /\ UNCHANGED <<status, incoming_challenges, outgoing_challenges, challenging,
                   calls_left, start_sent, start_received, peers, samples, called,
                   server_connection, now, packet_sender_connected>>
    /\ UNCHANGED serverVars

\* match message_receiver.try_recv(): Ok(Message::Quit) returns the transport
\* handles; Err(_) => {}
LoopMessage(c) ==
    /\ At(c, "message_receiver")
    /\ IF message_receiver[c] # <<>>
       THEN /\ handler' = [handler EXCEPT ![c].result = "Ok"]
            /\ message_receiver' = [message_receiver EXCEPT ![c] = Tail(@)]
            /\ last' = Step("Quit", c, c, status[c], {})
       ELSE /\ handler' = [handler EXCEPT ![c].at = "ping_timer"]
            /\ message_receiver' = message_receiver
            /\ last' = Step("no_message", c, c, status[c], {})
    /\ out' = EmptyBag
    /\ UNCHANGED <<net, threads, event_receiver>>
    /\ UNCHANGED <<status, incoming_challenges, outgoing_challenges, challenging,
                   calls_left, start_sent, start_received, peers, samples, called,
                   server_connection, now, packet_sender_connected>>
    /\ UNCHANGED serverVars

\* if ping_timer.elapsed() > PING_TIMER_MILLIS: a Ping to every peer of the table,
\* the first failing send returning the error from the handler; whether the timer
\* has elapsed is the scheduler's choice
LoopPingTimer(c) ==
    /\ At(c, "ping_timer")
    /\ \/ /\ out' = EmptyBag
          /\ handler' = [handler EXCEPT ![c].at = "server_connection"]
          /\ last' = Step("ping_timer_waits", c, c, status[c], {})
       \/ /\ SamplesTaken + PingsInFlight + Cardinality(DOMAIN peers[c]) <= MaxPings
          /\ DOMAIN peers[c] # {} => packet_sender_connected[c]
          /\ out' = Once({Packet(c, p, Ping(now)) : p \in DOMAIN peers[c]})
          /\ handler' = [handler EXCEPT ![c].at = "server_connection"]
          /\ last' = Step("ping_timer", c, c, status[c], {})
       \/ /\ DOMAIN peers[c] # {} /\ ~packet_sender_connected[c]
          /\ out' = EmptyBag
          /\ handler' = [handler EXCEPT ![c].result = "Err"]
          /\ last' = Step("ping_timerSendFailed", c, c, status[c], {})
    /\ net' = net (+) out'
    /\ UNCHANGED <<threads, event_receiver, message_receiver>>
    /\ UNCHANGED <<status, incoming_challenges, outgoing_challenges, challenging,
                   calls_left, start_sent, start_received, peers, samples, called,
                   server_connection, now, packet_sender_connected>>
    /\ UNCHANGED serverVars

\* the Connecting deadline, the last statement of the loop body
LoopDeadline(c) ==
    /\ At(c, "server_connection")
    /\ ConnectingDeadline(c)
    /\ handler' = [handler EXCEPT ![c].at = "event_receiver"]
    /\ last' = Step("deadline", c, c, status[c], {})
    /\ out' = EmptyBag
    /\ UNCHANGED <<net, threads, event_receiver, message_receiver>>
    /\ UNCHANGED <<status, incoming_challenges, outgoing_challenges, challenging,
                   calls_left, start_sent, start_received, peers, samples, called, now,
                   packet_sender_connected>>
    /\ UNCHANGED serverVars

\* the client whose handler loop is followed
Followed == {1}

\* the statements of the followed handler's loop
LoopStep ==
    \E c \in Followed :
        LoopEvent(c) \/ LoopNoEvent(c) \/ LoopMessage(c) \/ LoopPingTimer(c)
        \/ LoopDeadline(c)

\* the loop during a handshake: the owner challenges and closes, the polling thread
\* may end
NextLoop ==
    \/ \E c \in Followed : \E e \in HandshakeEvents(c) : SocketEventArrives(c, e)
    \/ \E c \in Followed : PollingStops(c)
    \/ \E c \in Followed : \E p \in Pair \ {c} :
           ~handler[c].closed /\ ChallengeSend(c, p) /\ Delivered(c)
    \/ \E c \in Followed : ChallengeInsert(c)
    \/ \E c \in Followed : Close(c)
    \/ LoopStep

SpecLoop == InitPairQueued /\ [][NextLoop]_vars

\* the loop fed any payload from either address, one event at a time, while the owner
\* leaves and rejoins the queue
NextDecode ==
    \/ \E c \in Followed : \E e \in SocketEvents(c) :
           handler[c].taken < MaxDecoded /\ event_receiver[c] = <<>>
           /\ SocketEventArrives(c, e)
    \/ \E c \in Followed : QueueCall(c)
    \/ \E c \in Followed : DequeueCall(c)
    \/ LoopStep

SpecDecode == InitPairQueued /\ [][NextDecode]_vars

\* the Pings and PingResponses the peer's address can deliver, with any timestamp
PingEvents(c) ==
    {PacketEvent(p, m) : p \in Pair \ {c}, m \in {Ping(0)} \cup {PingResponse(t) : t \in Times}}

\* the loop fed Pings and PingResponses, one event at a time, while time passes
NextClock ==
    \/ \E c \in Followed : \E e \in PingEvents(c) :
           event_receiver[c] = <<>> /\ SocketEventArrives(c, e)
    \/ Tick
    \/ LoopStep

SpecClock == InitPairQueued /\ [][NextClock]_vars

(***************************************************************************)
(* The locking of one client.  Every owner call and every arm of the       *)
(* handler is the sequence of its lock, unlock and send instructions: a    *)
(* MutexGuard bound by `let` is unlocked at the end of its block, in the   *)
(* reverse order of the declarations; one made in the condition of an `if` *)
(* or inside a statement is unlocked when the condition or statement ends; *)
(* one made in the iterator expression of a `for` is unlocked after the    *)
(* loop.  Each branch of a call or arm is one sequence.                    *)
(***************************************************************************)
Lock(mutex) == <<"lock", mutex>>
Unlock(mutex) == <<"unlock", mutex>>
Send == <<"send", "packet_sender">>

\* Client::queue: from Idle, and from any other status
QueueCode ==
    {<<Lock("status"), Send, Lock("server_connection"), Unlock("server_connection"),
       Unlock("status")>>,
     <<Lock("status"), Unlock("status")>>}

\* Client::dequeue: from QueuePending or Queued, and from any other status
DequeueCode ==
    {<<Lock("status"), Send, Lock("server_connection"), Unlock("server_connection"),
       Unlock("status")>>,
     <<Lock("status"), Unlock("status")>>}

\* Client::challenge
ChallengeCode == {<<Send, Lock("outgoing_challenges"), Unlock("outgoing_challenges")>>}

\* Client::accept: for a peer in incoming_challenges, and for any other
AcceptCode ==
    {<<Lock("incoming_challenges"), Unlock("incoming_challenges"), Send>>,
     <<Lock("incoming_challenges"), Unlock("incoming_challenges")>>}

\* Client::decline: for an address in incoming_challenges, and for any other
DeclineCode ==
    {<<Lock("incoming_challenges"), Unlock("incoming_challenges"), Send>>,
     <<Lock("incoming_challenges"), Unlock("incoming_challenges")>>}

\* Client::peers, incoming_challenges, outgoing_challenges, check_match
SnapshotCode ==
    {<<Lock(mutex), Unlock(mutex)>> :
        mutex \in {"peers", "incoming_challenges", "outgoing_challenges", "status"}}

\* the calls of the owner
OwnerCode ==
    QueueCode \cup DequeueCode \cup ChallengeCode \cup AcceptCode \cup DeclineCode
    \cup SnapshotCode

\* the arms of FromClient: Challenge; Accept when not Queued, when Queued and not
\* challenged, when Queued and challenged; Decline; Start when Queued and otherwise;
\* Ping; PingResponse
FromClientCode ==
    {<<Lock("incoming_challenges"), Unlock("incoming_challenges")>>,
     <<Lock("status"), Unlock("status")>>,
     <<Lock("status"), Lock("outgoing_challenges"), Unlock("outgoing_challenges"),
       Unlock("status")>>,
     <<Lock("status"), Lock("outgoing_challenges"), Unlock("outgoing_challenges"), Send,
       Unlock("status")>>,
     <<Lock("outgoing_challenges"), Unlock("outgoing_challenges"), Lock("status"),
       Unlock("status")>>,
     <<Lock("status"), Send, Lock("incoming_challenges"), Unlock("incoming_challenges"),
       Lock("outgoing_challenges"), Unlock("outgoing_challenges"), Unlock("status")>>,
     <<Send>>,
     <<Lock("peers"), Unlock("peers")>>}

\* the arms of FromServer: Peers; Queued and Dequeued; any other message
FromServerCode ==
    {<<Lock("peers"), Lock("status"), Unlock("status"), Unlock("peers")>>,
     <<Lock("peers"), Unlock("peers")>>,
     <<>>}

\* SocketEvent::Connect and SocketEvent::Timeout: of the server, and of another address
ConnectionEventCode == {<<Lock("server_connection"), Unlock("server_connection")>>, <<>>}

\* the ping timer: not elapsed; elapsed with no peer, with one peer and with two
PingTimerCode ==
    {<<>>,
     <<Lock("peers"), Unlock("peers")>>,
     <<Lock("peers"), Send, Unlock("peers")>>,
     <<Lock("peers"), Send, Send, Unlock("peers")>>}

\* DeadlineCode that reads the status while it holds the server connection
DeadlineCodeReadsStatus ==
    <<Lock("server_connection"), Lock("status"), Unlock("status"),
      Unlock("server_connection")>>

\* the Connecting deadline at the end of the loop body
DeadlineCode == <<Lock("server_connection"), Unlock("server_connection")>>

\* one iteration of the handler's loop: the event, the ping timer, the deadline
HandlerCode ==
    {event \o ping \o DeadlineCode :
        event \in FromClientCode \cup FromServerCode \cup ConnectionEventCode,
        ping \in PingTimerCode}

\* locking changes nothing but the threads' instructions and held mutexes
LocksOnly ==
    /\ UNCHANGED <<net, out, last, event_receiver, message_receiver, handler>>
    /\ UNCHANGED <<status, incoming_challenges, outgoing_challenges, challenging,
                   calls_left, start_sent, start_received, peers, samples, called,
                   server_connection, now, packet_sender_connected>>
    /\ UNCHANGED serverVars

\* the owner thread enters a call
OwnerCall(code) ==
    /\ threads["owner"].code = <<>>
    /\ threads' = [threads EXCEPT !["owner"].code = code]
    /\ LocksOnly

\* the handler thread begins an iteration
HandlerIteration(code) ==
    /\ threads["handler"].code = <<>>
    /\ threads' = [threads EXCEPT !["handler"].code = code]
    /\ LocksOnly

\* a thread runs its next instruction; Mutex::lock blocks while the mutex is held
Run(t) ==
    /\ threads[t].code # <<>>
    /\ LET instruction == Head(threads[t].code)
           mutex == instruction[2]
       IN CASE instruction[1] = "lock" ->
                 /\ \A u \in Threads : mutex \notin threads[u].held
                 /\ threads' = [threads EXCEPT ![t] =
                                   [code |-> Tail(@.code), held |-> @.held \cup {mutex}]]
            [] instruction[1] = "unlock" ->
                 threads' = [threads EXCEPT ![t] =
                               [code |-> Tail(@.code), held |-> @.held \ {mutex}]]
            [] instruction[1] = "send" ->
                 threads' = [threads EXCEPT ![t].code = Tail(@)]
    /\ LocksOnly

NextLocks ==
    \/ \E code \in OwnerCode : OwnerCall(code)
    \/ \E code \in HandlerCode : HandlerIteration(code)
    \/ \E t \in Threads : Run(t)

SpecLocks == Init /\ [][NextLocks]_vars

(***************************************************************************)
(* Three queued clients whose owners make every call of the client in any  *)
(* order.                                                                  *)
(***************************************************************************)
Trio == {1, 2, 3}

\* the handler threads of the three
TrioHandlerStep == \E c \in Trio : \E packet \in BagToSet(net) : HandlerPacket(c, packet)

NextTrio ==
    \/ \E c \in Trio : QueueCall(c)
    \/ \E c \in Trio : DequeueCall(c)
    \/ \E c \in Trio : \E p \in Trio \ {c} : ChallengeSend(c, p)
    \/ \E c \in Trio : ChallengeInsert(c)
    \/ \E c \in Trio : \E p \in Trio \ {c} : AcceptCall(c, p)
    \/ \E c \in Trio : \E p \in Trio \ {c} : DeclineCall(c, p)
    \/ TrioHandlerStep

SpecTrio == QueuedWith(MaxTrioCalls) /\ [][NextTrio]_vars

(***************************************************************************)
(* The three clients with owners that challenge and accept (no decline, no *)
(* dequeue) and a transport that loses nothing: every packet in flight is  *)
(* received, and a challenge() call that has sent its packet returns.      *)
(***************************************************************************)
\* the second halves of the three clients' challenge() calls
TrioChallengeInsert == \E c \in Trio : ChallengeInsert(c)

NextRivals ==
    \/ \E c \in Trio : \E p \in Trio \ {c} : ChallengeSend(c, p)
    \/ TrioChallengeInsert
    \/ \E c \in Trio : \E p \in Trio \ {c} : AcceptCall(c, p)
    \/ TrioHandlerStep

SpecRivals ==
    /\ QueuedWith(MaxTrioCalls) /\ [][NextRivals]_vars
    /\ WF_vars(TrioHandlerStep) /\ WF_vars(TrioChallengeInsert)

\* the pair of SpecPair with owners that make enough calls for each to challenge the
\* other and to accept the other's challenge
SpecMutual ==
    /\ QueuedWith(MaxTrioCalls) /\ [][NextPair]_vars
    /\ WF_vars(PairHandlerStep) /\ WF_vars(PairChallengeInsert)

(***************************************************************************)
(* Properties of the client's handshake.                                   *)
(***************************************************************************)
\* B's accept(A) has just sent an Accept, A's challenge(B) has returned before it,
\* and both are Queued
AcceptedAfterChallenge(a, b) ==
    /\ last = Step("accept", b, a, Queued, {})
    /\ out = Once({Packet(b, a, Accept)})
    /\ b \in outgoing_challenges[a]
    /\ status[a] = Queued

\* C6: two Queued clients A and B, A calls challenge(B), B then calls accept(A), no
\* packet is lost: eventually check_match() of each is Some of the other's address.
C6_HandshakeConvergence ==
    \A a \in Pair : \A b \in Pair \ {a} :
        AcceptedAfterChallenge(a, b) ~> (check_match(a) = {b} /\ check_match(b) = {a})

\* C6 witness: after one challenge(2) by client 1 and one accept(1) by client 2, both
\* are confirmed with each other
C6_Witness ==
    /\ last = Step("Start", 1, 2, MatchPending(2), {})
    /\ check_match(1) = {2} /\ check_match(2) = {1}
    /\ start_received[1] = {2} /\ start_received[2] = {1}
    /\ net = EmptyBag

\* C7 (as claimed): whenever a client's status becomes MatchConfirmed, from Queued on
\* a Start or from MatchPending(p) on p's Start, its incoming_challenges and
\* outgoing_challenges are both empty right after the transition.
C7_SetsClearedOnConfirm ==
    [][\A c \in Clients :
         (status[c].tag # "MatchConfirmed" /\ status'[c].tag = "MatchConfirmed")
         => (incoming_challenges'[c] = {} /\ outgoing_challenges'[c] = {})]_vars

\* C8: a client whose status is MatchConfirmed(p) has received a Start from p and has
\* sent a Start to p.
C8_ConfirmedAfterStartExchange ==
    \A c \in Clients :
        status[c].tag = "MatchConfirmed"
        => (status[c].addr \in start_received[c] /\ status[c].addr \in start_sent[c])

\* C8 witness: two clients confirmed with each other, one from MatchPending and the
\* other from Queued
C8_Witness ==
    \E a \in Clients : \E b \in Clients \ {a} :
        /\ status[a] = MatchConfirmed(b) /\ status[b] = MatchConfirmed(a)
        /\ last = Step("Start", a, b, MatchPending(b), {})

C10_ConfirmedIgnoresAcceptAndStart ==
    [][\A c \in Clients :
         (last'.op \in {"Accept", "Start"} /\ last'.at = c /\ status[c].tag = "MatchConfirmed")
         => /\ status'[c] = status[c]
            /\ incoming_challenges'[c] = incoming_challenges[c]
            /\ outgoing_challenges'[c] = outgoing_challenges[c]
            /\ out' = EmptyBag
            /\ BagCardinality(net') = BagCardinality(net) - 1
            /\ net' \sqsubseteq net]_vars

\* C10 witness: a confirmed client has received an Accept from its own opponent, whom
\* it still lists in outgoing_challenges
C10_Witness ==
    /\ last.op = "Accept"
    /\ last.pre = MatchConfirmed(last.who)
    /\ last.who \in outgoing_challenges[last.at]

\* C11: an Accept from sender s changes the client's status, to MatchPending(s) with
\* one Start(0) sent to s, if and only if the status is Queued and s is in
\* outgoing_challenges; in every other case the status is unchanged and nothing is
\* sent.
C11_GuardedAccept ==
    [][\A c \in Clients :
         (last'.op = "Accept" /\ last'.at = c)
         => LET s == last'.who
            IN IF status[c] = Queued /\ s \in outgoing_challenges[c]
               THEN /\ status' = [status EXCEPT ![c] = MatchPending(s)]
                    /\ status'[c] # status[c]
                    /\ out' = Once({Packet(c, s, Start(0))})
               ELSE /\ status' = status
                    /\ out' = EmptyBag]_vars

\* C11 witness: a Queued client has received the Accept of a peer it had challenged
\* and is MatchPending with it, and the only packet in flight is its Start(0)
C11_Witness ==
    /\ last.op = "Accept"
    /\ last.pre = Queued
    /\ status[last.at] = MatchPending(last.who)
    /\ last.who \in outgoing_challenges[last.at]
    /\ net = Once({Packet(last.at, last.who, Start(0))})

\* C22: a Start from sender s to a Queued client makes it send Start(0) to s, clear
\* both challenge sets and become MatchConfirmed(s); to a client in MatchPending(s) it
\* makes it MatchConfirmed(s) with nothing sent; in every other case (Idle,
\* QueuePending, MatchPending(q) with q different from s, MatchConfirmed) the status
\* and the challenge sets are unchanged and nothing is sent.
C22_Start ==
    [][\A c \in Clients :
         (last'.op = "Start" /\ last'.at = c)
         => LET s == last'.who
            IN CASE status[c] = Queued ->
                      /\ out' = Once({Packet(c, s, Start(0))})
                      /\ incoming_challenges' = [incoming_challenges EXCEPT ![c] = {}]
                      /\ outgoing_challenges' = [outgoing_challenges EXCEPT ![c] = {}]
                      /\ status' = [status EXCEPT ![c] = MatchConfirmed(s)]
                 [] status[c] = MatchPending(s) ->
                      /\ out' = EmptyBag
                      /\ status' = [status EXCEPT ![c] = MatchConfirmed(s)]
                 [] OTHER ->
                      /\ out' = EmptyBag
                      /\ UNCHANGED <<status, incoming_challenges, outgoing_challenges>>]_vars

\* C22 witness: a client in MatchPending(q) has received the Start of another peer and
\* is still in MatchPending(q)
C22_Witness ==
    /\ last.op = "Start"
    /\ last.pre.tag = "MatchPending"
    /\ last.pre.addr # last.who
    /\ status[last.at] = last.pre
    /\ out = EmptyBag

\* C23: a Decline from sender s removes s from outgoing_challenges; the status changes,
\* to Queued, only when it was MatchPending(s); a Decline from s while the status is
\* MatchPending(q) with q different from s, MatchConfirmed or Queued leaves the status
\* unchanged.
C23_Decline ==
    [][\A c \in Clients :
         (last'.op = "Decline" /\ last'.at = c)
         => LET s == last'.who
            IN /\ outgoing_challenges' = [outgoing_challenges EXCEPT ![c] = @ \ {s}]
               /\ status' = IF status[c] = MatchPending(s)
                            THEN [status EXCEPT ![c] = Queued]
                            ELSE status
               /\ out' = EmptyBag]_vars

\* C23 witness: a client in MatchPending(q) has received the Decline of another peer
\* it had challenged: that peer has left outgoing_challenges and the status is still
\* MatchPending(q)
C23_Witness ==
    /\ last.op = "Decline"
    /\ last.pre.tag = "MatchPending"
    /\ last.pre.addr # last.who
    /\ status[last.at] = last.pre
    /\ <<"challenge", last.who>> \in called[last.at]
    /\ last.who \notin outgoing_challenges[last.at]

\* C25 (as claimed): when a Queued client A has called challenge(B), an Accept from B
\* that A's handler processes while A is still Queued, with no Decline from B since
\* the challenge, moves A to MatchPending(B), also when the handler runs between the
\* send of challenge() and its insertion of B into outgoing_challenges.
C25_AcceptAfterChallenge ==
    [][\A a \in Clients :
         (/\ last'.op = "Accept" /\ last'.at = a
          /\ status[a] = Queued
          /\ last'.who \in challenging[a] \cup outgoing_challenges[a])
         => status'[a] = MatchPending(last'.who)]_vars

\* C28: a client's status is MatchConfirmed(p) only if its owner has earlier called
\* challenge(p), or accept(p) on a challenge received from p.
C28_Consent ==
    \A c \in Clients : \A p \in Clients :
        status[c] = MatchConfirmed(p)
        => (<<"challenge", p>> \in called[c] \/ <<"accept", p>> \in called[c])

\* Both sides of a match are confirmed, one by its challenge and the other by its accept only.
C28_Witness ==
    \E c \in Clients : \E p \in Clients :
        /\ status[c] = MatchConfirmed(p) /\ status[p] = MatchConfirmed(c)
        /\ called[c] = {<<"accept", p>>}
        /\ <<"challenge", c>> \in called[p] /\ <<"accept", c>> \notin called[p]

\* C30 (as claimed): when the send of an owner command (queue, dequeue, challenge,
\* accept, decline) fails, the match status, the server-connection status and both
\* challenge sets are as before the call.
C30_FailedSendLeavesState ==
    [][\A c \in Clients :
         (/\ last'.at = c
          /\ last'.op \in {"queueSendFailed", "dequeueSendFailed", "challengeSendFailed",
                           "acceptSendFailed", "declineSendFailed"})
         => /\ status'[c] = status[c]
            /\ server_connection'[c] = server_connection[c]
            /\ incoming_challenges'[c] = incoming_challenges[c]
            /\ outgoing_challenges'[c] = outgoing_challenges[c]]_vars

\* C26 (as claimed): with no packet lost and three clients, every client that
\* enters MatchPending(p) eventually leaves it, to MatchConfirmed(p) or back to Queued.
C26_PendingEnds ==
    \A c \in Trio : \A p \in Trio \ {c} :
        (status[c] = MatchPending(p)) ~> (status[c] \in {MatchConfirmed(p), Queued})

\* each of the pair has called challenge on the other and has accepted the other's challenge
MutualChallengesAccepted ==
    \A a \in Pair : \A b \in Pair \ {a} :
        <<"challenge", b>> \in called[a] /\ <<"accept", b>> \in called[a]

\* C27 (as claimed): two Queued clients that each challenge the other and each accept
\* the other's challenge, with no packet lost, both end in MatchConfirmed pointing at
\* each other.
C27_MutualChallenges ==
    MutualChallengesAccepted
    ~> [](status[1] = MatchConfirmed(2) /\ status[2] = MatchConfirmed(1))

\* C39: whenever a client's status is MatchPending(p), p is in that client's
\* outgoing_challenges.
C39_PendingIsChallenged ==
    \A c \in Clients :
        status[c].tag = "MatchPending" => status[c].addr \in outgoing_challenges[c]

\* a client with a pending match has handled the Decline of another peer it had challenged
C39_Witness ==
    \E c \in Clients :
        /\ status[c].tag = "MatchPending"
        /\ last = Step("Decline", c, last.who, status[c], {})
        /\ last.who # status[c].addr
        /\ <<"challenge", last.who>> \in called[c]
        /\ outgoing_challenges[c] = {status[c].addr}

\* C37 (as claimed): when the client itself disconnects (dequeue() marks the server
\* connection Disconnected, or the server connection times out), its peer table is
\* empty afterwards.
C37_PeersRemovedOnDisconnect ==
    [][\A c \in Clients :
         (/\ last'.at = c
          /\ last'.op \in {"dequeue", "Timeout"}
          /\ server_connection[c] # Disconnected
          /\ server_connection'[c] = Disconnected)
         => DOMAIN peers'[c] = {}]_vars

\* the server has handled Queue requests only, of both clients of the pair, and every
\* message it sent has been received
BothQueuedAndDelivered ==
    /\ \A i \in 1 .. Len(served) : served[i][1] = "Queue"
    /\ Pair \subseteq {served[i][2] : i \in 1 .. Len(served)}
    /\ \A x \in BagToSet(net) : x.src # ServerAddr

\* C38: after c1 and then c2 queue with the server and every server message has been
\* delivered (no dequeue, no timeout), each one's peer table contains the other, in
\* whatever order Peers and Queued arrive, and no table contains its owner's address.
C38_Discovery ==
    BothQueuedAndDelivered
    => /\ \A c \in Pair : Pair \ {c} \subseteq DOMAIN peers[c]
       /\ \A c \in Clients : c \notin DOMAIN peers[c]

\* the first client learnt of the second from Queued before its own Peers reply arrived
C38_Witness ==
    /\ BothQueuedAndDelivered
    /\ Len(served) = 2
    /\ last = Step("Peers", served[1][2], ServerAddr, QueuePending, {})
    /\ served[2][2] \in DOMAIN peers[served[1][2]]
    /\ served[1][2] \in DOMAIN peers[served[2][2]]

(***************************************************************************)
(* Properties of the locking.                                              *)
(***************************************************************************)
\* thread t is about to run instruction kind
About(t, kind) == threads[t].code # <<>> /\ Head(threads[t].code)[1] = kind

\* C35 (as claimed): in every owner command and every handler step, every mutex is
\* released before a packet is sent and before another piece of shared state is read
\* (locked).
C35_NoLockAcrossSend ==
    [][\A t \in Threads :
         (/\ About(t, "send") \/ About(t, "lock")
          /\ threads'[t].code = Tail(threads[t].code))
         => threads[t].held = {}]_vars

\* thread t waits for a mutex that is held
Waiting(t) ==
    /\ About(t, "lock")
    /\ \E u \in Threads : Head(threads[t].code)[2] \in threads[u].held

\* C36: no interleaving of owner commands and handler steps reaches a state where each
\* thread waits for a lock the other holds.
C36_DeadlockFree == ~(\A t \in Threads : Waiting(t))

\* the owner, inside queue() with the status locked, waits for the server connection
\* that the handler holds at its deadline test
C36_Witness ==
    /\ threads["owner"].held = {"status"}
    /\ Waiting("owner")
    /\ threads["handler"].held = {"server_connection"}
    /\ ~Waiting("handler")

(***************************************************************************)
(* Properties of the handler's loop.                                       *)
(***************************************************************************)
\* the handler of c leaves its loop in this step
Stops(c) == handler[c].result = "running" /\ handler'[c].result # "running"

\* C31 (as claimed): the only way the handler's loop stops is a Quit command from the
\* owner; a failed send while answering a packet (Accept, Start, Ping) or while
\* pinging does not stop it.
C31_RunsUntilQuit ==
    [][\A c \in Clients : Stops(c) => last'.op = "Quit"]_vars

\* C32 (as claimed): once close() has put Quit in the command channel of a running
\* handler, the handler leaves its loop only by returning the transport handles.
C32_QuitReturnsHandles ==
    [][\A c \in Clients :
         (message_receiver[c] # <<>> /\ Stops(c)) => handler'[c].result = "Ok"]_vars

\* C33 (as claimed): every event that was waiting in event_receiver when an iteration
\* began has been processed when that iteration looks at the quit command.
C33_EventsDrainedBeforeQuit ==
    [][\A c \in Clients :
         (last'.at = c /\ last'.op \in {"Quit", "no_message"})
         => handler[c].pending = 0]_vars

\* the handler of c takes a packet event in this step
TakesPacket(c) ==
    /\ handler'[c].taken = handler[c].taken + 1
    /\ Head(event_receiver[c]).event = "Packet"

\* C34: a packet whose source is the server address is decoded only as a server
\* message and changes nothing but the peer table and the status, the status only
\* from QueuePending to Queued; a packet of any other address is decoded only as a
\* peer message and neither adds an entry to the peer table nor removes one.
C34_MessageSetBySource ==
    [][\A c \in Clients :
         TakesPacket(c)
         => IF Head(event_receiver[c]).addr = ServerAddr
            THEN /\ last'.op \in Range(FromServerTypes) \cup {"Err"}
                 /\ last'.who = ServerAddr
                 /\ status'[c] # status[c] => (status[c] = QueuePending /\ status'[c] = Queued)
                 /\ out' = EmptyBag
                 /\ UNCHANGED <<incoming_challenges, outgoing_challenges, start_sent,
                                start_received, server_connection>>
            ELSE /\ last'.op \in Range(FromClientTypes) \cup {"Err"}
                 /\ last'.who = Head(event_receiver[c]).addr
                 /\ DOMAIN peers'[c] = DOMAIN peers[c]]_vars

\* a client that had left the queue and called queue() again has taken a Peers
\* message of the server's address, which made it Queued and put a third address
\* into its table
C34_Witness ==
    /\ last = Step("Peers", 1, ServerAddr, QueuePending, {3})
    /\ status[1] = Queued
    /\ DOMAIN peers[1] = {2, 3}
    /\ handler[1].taken = 1
    /\ event_receiver[1] = <<>>

\* C40 (as claimed): for every PingResponse(t0) received from a known peer the handler
\* keeps running and the sample it records is (now - t0) / 2 computed without
\* underflow, at most half the receiver's elapsed time, also when t0 is larger than
\* the elapsed time.
C40_SampleWithoutUnderflow ==
    [][\A c \in Clients :
         (/\ TakesPacket(c)
          /\ last'.op = "PingResponse"
          /\ last'.who \in DOMAIN peers[c])
         => /\ handler'[c].result = "running"
            /\ Len(samples'[c][last'.who]) = Len(samples[c][last'.who]) + 1
            /\ samples'[c][last'.who][Len(samples'[c][last'.who])] <= now \div 2]_vars

(***************************************************************************)
(* Properties of the latency estimate.                                     *)
(***************************************************************************)
\* C12: for a peer with no prior estimate, after the PingResponse samples s1 then s2
\* the estimate is s1 after the first and (s1 div 2) + (s2 div 2) after the second
\* (integer division), and each sample increases the sample count by exactly one.
C12_LatencyEstimate ==
    \A c \in Clients : \A p \in DOMAIN peers[c] :
        LET s == samples[c][p]
            peer == peers[c][p]
        IN /\ peer.ping_count = Len(s)
           /\ Len(s) = 0 => peer.latency = {}
           /\ Len(s) = 1 => peer.latency = {s[1]}
           /\ Len(s) = 2 => peer.latency = {(s[1] \div 2) + (s[2] \div 2)}

\* C12 witness: client 1 has taken two samples of 1 for peer 2, and its estimate is
\* 0 + 0, not their mean
C12_Witness ==
    /\ last.op = "PingResponse"
    /\ samples[1][2] = <<1, 1>>
    /\ peers[1][2].latency = {0}
    /\ peers[1][2].ping_count = 2

\* C24 (as claimed): Peers(S) from the server leaves every address that was already in
\* the table in the table, with its latency estimate and its sample count.
C24_PeersKeepsEstimates ==
    [][\A c \in Clients :
         (last'.op = "Peers" /\ last'.at = c)
         => \A a \in DOMAIN peers[c] :
              /\ a \in DOMAIN peers'[c]
              /\ peers'[c][a].latency = peers[c][a].latency
              /\ peers'[c][a].ping_count = peers[c][a].ping_count]_vars

\* the requests of client c that are in flight to the server
RequestsInFlight(c) == {x \in BagToSet(net) : x.src = c /\ x.dst = ServerAddr}

\* C29 (as claimed): when a client has called queue() and then dequeue(), ending Idle,
\* and its requests have all been delivered to the server, in whatever order, with no
\* timeout, its address is not in the server's queue.
C29_IdleClientNotQueued ==
    \A c \in Clients :
        (status[c] = Idle /\ RequestsInFlight(c) = {}) => c \notin queue

(***************************************************************************)
(* Properties of the owner's calls.                                        *)
(***************************************************************************)
\* the step leaves the client's shared state and the transport as they were
NothingSentNothingChanged ==
    /\ out' = EmptyBag
    /\ net' = net
    /\ UNCHANGED <<status, server_connection, peers, incoming_challenges,
                   outgoing_challenges>>

\* C13: queue() from status Idle sends exactly one Queue to the server and sets the
\* status QueuePending; from every other status (QueuePending, Queued, MatchPending,
\* MatchConfirmed) it sends nothing and leaves all state unchanged.
C13_Queue ==
    [][\A c \in Clients :
         (last'.op = "queue" /\ last'.at = c)
         => IF status[c] = Idle
            THEN /\ out' = Once({Packet(c, ServerAddr, ToServer("Queue"))})
                 /\ net' = net (+) out'
                 /\ status' = [status EXCEPT ![c] = QueuePending]
            ELSE NothingSentNothingChanged]_vars

\* C13 witness: an Idle client has called queue(): it is QueuePending and its Queue
\* request is in flight to the server
C13_Witness ==
    /\ last.op = "queue"
    /\ last.pre = Idle
    /\ status[last.at] = QueuePending
    /\ out = Once({Packet(last.at, ServerAddr, ToServer("Queue"))})
    /\ BagIn(Packet(last.at, ServerAddr, ToServer("Queue")), net)

\* C14: dequeue() from QueuePending or Queued sends Dequeue to the server, sets the
\* status Idle and the server-connection status Disconnected; from Idle, MatchPending
\* or MatchConfirmed it sends nothing and changes neither status nor
\* server-connection status.
C14_Dequeue ==
    [][\A c \in Clients :
         (last'.op = "dequeue" /\ last'.at = c)
         => IF status[c] \in {QueuePending, Queued}
            THEN /\ out' = Once({Packet(c, ServerAddr, ToServer("Dequeue"))})
                 /\ net' = net (+) out'
                 /\ status' = [status EXCEPT ![c] = Idle]
                 /\ server_connection' = [server_connection EXCEPT ![c] = Disconnected]
            ELSE /\ out' = EmptyBag
                 /\ net' = net
                 /\ status' = status
                 /\ server_connection' = server_connection]_vars

\* C14 witness: a Queued client has called dequeue(): it is Idle, its server
\* connection is Disconnected and its Dequeue request is in flight
C14_Witness ==
    /\ last.op = "dequeue"
    /\ last.pre = Queued
    /\ status[last.at] = Idle
    /\ server_connection[last.at] = Disconnected
    /\ out = Once({Packet(last.at, ServerAddr, ToServer("Dequeue"))})

\* C15: challenge(peer), in every status, sends Challenge to peer and adds peer's
\* address to outgoing_challenges, and changes neither the match status nor
\* incoming_challenges.
C15_Challenge ==
    [][\A c \in Clients :
         /\ (last'.op = "challenge" /\ last'.at = c)
            => /\ out' = Once({Packet(c, last'.who, Challenge)})
               /\ net' = net (+) out'
               /\ challenging'[c] = {last'.who}
               /\ UNCHANGED <<status, incoming_challenges>>
         /\ (last'.op = "challenge_insert" /\ last'.at = c)
            => /\ last'.who \in challenging[c]
               /\ outgoing_challenges' =
                      [outgoing_challenges EXCEPT ![c] = @ \cup {last'.who}]
               /\ out' = EmptyBag
               /\ UNCHANGED <<status, incoming_challenges>>]_vars

\* C15 witness: a client that is not Queued has completed a challenge(): the peer is
\* in its outgoing_challenges and the Challenge is in flight
C15_Witness ==
    /\ last.op = "challenge_insert"
    /\ last.pre # Queued
    /\ status[last.at] = last.pre
    /\ last.who \in outgoing_challenges[last.at]
    /\ BagIn(Packet(last.at, last.who, Challenge), net)

\* C16 (as claimed): after challenge(p) succeeds, the entry for address p of the
\* client's peer table, as peers() returns it, has display status OutgoingChallenge.
C16_DisplayStatusInTable ==
    [][\A c \in Clients :
         (last'.op = "challenge_insert" /\ last'.at = c /\ last'.who \in DOMAIN peers'[c])
         => peers'[c][last'.who].status = "OutgoingChallenge"]_vars

\* C17: accept(peer) sends an Accept to peer if and only if peer's address is in
\* incoming_challenges at the call; in both cases the call changes neither the match
\* status nor either challenge set.
C17_Accept ==
    [][\A c \in Clients :
         (last'.op = "accept" /\ last'.at = c)
         => /\ out' = IF last'.who \in incoming_challenges[c]
                      THEN Once({Packet(c, last'.who, Accept)})
                      ELSE EmptyBag
            /\ net' = net (+) out'
            /\ UNCHANGED <<status, incoming_challenges, outgoing_challenges>>]_vars

\* C17 witness: an accept() of a peer that had challenged has sent its Accept, and the
\* peer is still in incoming_challenges
C17_Witness ==
    /\ last.op = "accept"
    /\ out = Once({Packet(last.at, last.who, Accept)})
    /\ last.who \in incoming_challenges[last.at]

\* C18: decline(addr) with addr in incoming_challenges removes it and sends one
\* Decline to addr; with addr not in incoming_challenges it sends nothing and changes
\* nothing; the match status is never changed by decline.
C18_Decline ==
    [][\A c \in Clients :
         (last'.op = "decline" /\ last'.at = c)
         => IF last'.who \in incoming_challenges[c]
            THEN /\ incoming_challenges' =
                        [incoming_challenges EXCEPT ![c] = @ \ {last'.who}]
                 /\ out' = Once({Packet(c, last'.who, Decline)})
                 /\ net' = net (+) out'
                 /\ status' = status
            ELSE NothingSentNothingChanged]_vars

\* C18 witness: a decline() of a peer that had challenged has sent its Decline and
\* removed the peer from incoming_challenges
C18_Witness ==
    /\ last.op = "decline"
    /\ out = Once({Packet(last.at, last.who, Decline)})
    /\ last.who \notin incoming_challenges[last.at]

\* C19 (as claimed): when queue() sends a Queue request while the server-connection
\* status is Disconnected, the server-connection status becomes Connecting(deadline).
C19_ConnectingOnQueue ==
    [][\A c \in Clients :
         (last'.op = "queue" /\ last'.at = c /\ status[c] = Idle
            /\ server_connection[c] = Disconnected)
         => server_connection'[c].tag = "Connecting"]_vars

\* C20 (as claimed): the owner of a client in MatchPending(p) ends the stall by
\* calling dequeue(): after the call the status is no longer MatchPending(p).
C20_DequeueEndsStall ==
    [][\A c \in Clients :
         (last'.op = "dequeue" /\ last'.at = c /\ status[c].tag = "MatchPending")
         => status'[c] # status[c]]_vars

\* C20 (amended): a client in MatchPending(p) stays in MatchPending(p) through every
\* step that is not its handler's processing of a Decline or a Start from p: time,
\* connection events, other packets and every owner call, dequeue() and queue()
\* included, which send nothing from that status.
C20_StallOutlastsOwnerCalls ==
    [][\A c \in Clients :
         (status[c].tag = "MatchPending"
            /\ ~(last'.at = c /\ last'.who = status[c].addr
                   /\ last'.op \in {"Decline", "Start"}))
         => /\ status'[c] = status[c]
            /\ (last'.at = c /\ last'.op \in {"dequeue", "queue"})
                  => NothingSentNothingChanged]_vars

\* C20 witness: a client in MatchPending has called dequeue() and is still in
\* MatchPending with the same peer, whose Start has not arrived
C20_Witness ==
    /\ last.op = "dequeue"
    /\ last.pre.tag = "MatchPending"
    /\ status[last.at] = last.pre
    /\ last.pre.addr \notin start_received[last.at]
    /\ out = EmptyBag

(***************************************************************************)
(* Properties of the server.                                               *)
(***************************************************************************)
\* C21 (as claimed): a serialization or send failure while handling a Queue request
\* aborts that request only: the server loop keeps running, whatever requests it has
\* been sent.
C21_LoopKeepsRunning ==
    (\E i \in 1 .. Len(served) : served[i][1] = "QueueSendFailed") => server_running

\* the server processed one more socket event in this step
ServerStepped == Len(served') = Len(served) + 1

\* the kind of the last Queue, Dequeue or Timeout event of address a in history s
LastEvent(s, a) ==
    LET idx == {i \in 1 .. Len(s) : s[i][2] = a /\ s[i][1] \in {"Queue", "Dequeue", "Timeout"}}
    IN IF idx = {} THEN "none"
       ELSE s[CHOOSE i \in idx : \A j \in idx : j <= i][1]

\* the Peers sets of the packets of bag b
PeersSetsIn(b) == {p.msg.peers : p \in {x \in BagToSet(b) : x.msg.type = "Peers"}}

\* what the server has sent after exactly Q1, Q2, Q3 queued in that order
AdmissionOrderSent(q1, q2, q3) ==
    Once({Packet(ServerAddr, q1, PeersMsg({})),
          Packet(ServerAddr, q2, PeersMsg({q1})),
          Packet(ServerAddr, q1, QueuedMsg(q2)),
          Packet(ServerAddr, q3, PeersMsg({q1, q2})),
          Packet(ServerAddr, q1, QueuedMsg(q3)),
          Packet(ServerAddr, q2, QueuedMsg(q3))})

\* C1: a Queue from an address src that is not queued sends src Peers(Q), Q the
\* queue before the request, sends exactly one Queued(src) to every address of Q
\* and nothing else, and leaves the queue Q plus src; so after Q1, Q2, Q3 queue in
\* that order the server has sent Peers({}), Peers({Q1}), Peers({Q1,Q2}), Queued(Q2)
\* to Q1 and Queued(Q3) to Q1 and Q2, once each.
C1_QueueAdmission ==
    /\ [][(ServerStepped /\ last'.op = "Queue" /\ last'.who \notin queue) =>
            LET src == last'.who IN
            /\ out' = Once({Packet(ServerAddr, src, PeersMsg(queue))})
                        (+) Once({Packet(ServerAddr, c, QueuedMsg(src)) : c \in queue})
            /\ src \notin queue
            /\ net' = net (+) out'
            /\ queue' = queue \cup {src}]_vars
    /\ [](\A q1, q2, q3 \in Clients :
            (served = <<<<"Queue", q1>>, <<"Queue", q2>>, <<"Queue", q3>>>>
             /\ q1 # q2 /\ q1 # q3 /\ q2 # q3)
            => net = AdmissionOrderSent(q1, q2, q3))

\* C1 witness: three distinct addresses have queued in a row
C1_Witness ==
    /\ served = <<<<"Queue", 1>>, <<"Queue", 2>>, <<"Queue", 3>>>>
    /\ queue = {1, 2, 3}
    /\ last.op = "Queue" /\ last.q = {1, 2}

\* C2 (as claimed): a Dequeue from a queued address removes it and sends
\* Dequeued(src) to every address that remains queued and not to src; a Dequeue
\* from an address that is not queued changes nothing and sends nothing.
C2_DequeueBroadcast ==
    [][(ServerStepped /\ last'.op = "Dequeue") =>
         LET src == last'.who IN
         IF src \in queue
         THEN /\ queue' = queue \ {src}
              /\ out' = Once({Packet(ServerAddr, c, DequeuedMsg(src)) : c \in queue \ {src}})
              /\ net' = net (+) out'
         ELSE /\ queue' = queue
              /\ out' = EmptyBag
              /\ net' = net]_vars

\* C3 (as claimed): a Queue from an address that is already queued sends it
\* Peers(queue minus src), sends no Queued(src) to any other member, and leaves
\* the queue unchanged.
C3_RequeueNoBroadcast ==
    [][(ServerStepped /\ last'.op = "Queue" /\ last'.who \in queue) =>
         LET src == last'.who IN
         /\ out' = Once({Packet(ServerAddr, src, PeersMsg(queue \ {src}))})
         /\ net' = net (+) out'
         /\ queue' = queue]_vars

\* C3 (amended): a Queue from an address that is already queued sends it
\* Peers(queue minus src), sends one Queued(src) to every other member again, and
\* leaves the queue unchanged.
C3_RequeueRebroadcast ==
    [][(ServerStepped /\ last'.op = "Queue" /\ last'.who \in queue) =>
         LET src == last'.who IN
         /\ out' = Once({Packet(ServerAddr, src, PeersMsg(queue \ {src}))})
                     (+) Once({Packet(ServerAddr, c, QueuedMsg(src)) : c \in queue \ {src}})
         /\ net' = net (+) out'
         /\ queue' = queue]_vars

\* C3 witness: a queued address has queued again while another address was queued
C3_Witness ==
    /\ last.op = "Queue"
    /\ last.who \in last.q
    /\ last.q \ {last.who} # {}
    /\ queue = last.q
    /\ BagCardinality(out) = Cardinality(last.q)

\* C4: once a Dequeue from src has been processed, src is in no Peers set the
\* server sends, until the server processes a later Queue from src.
C4_DequeuedAbsentFromPeers ==
    [][ServerStepped =>
         \A a \in Clients :
            LastEvent(served, a) = "Dequeue" => \A S \in PeersSetsIn(out') : a \notin S]_vars

\* C4 witness: an address queued and dequeued, then another one queued and got Peers
C4_Witness ==
    \E a, b \in Clients :
        /\ a # b
        /\ served = <<<<"Queue", a>>, <<"Dequeue", a>>, <<"Queue", b>>>>
        /\ out = Once({Packet(ServerAddr, b, PeersMsg({}))})

\* C5: a transport Timeout(a) removes a from the queue and sends nothing to anyone,
\* and a is in no Peers set sent to a client that queues later, until a queues again.
C5_TimeoutEviction ==
    [][ServerStepped =>
         /\ last'.op = "Timeout" =>
              /\ queue' = queue \ {last'.who}
              /\ out' = EmptyBag
              /\ net' = net
         /\ \A a \in Clients :
              LastEvent(served, a) = "Timeout" => \A S \in PeersSetsIn(out') : a \notin S]_vars

\* C5 witness: a queued address timed out, then another one queued and got Peers
C5_Witness ==
    \E a, b \in Clients :
        /\ a # b
        /\ served = <<<<"Queue", a>>, <<"Timeout", a>>, <<"Queue", b>>>>
        /\ out = Once({Packet(ServerAddr, b, PeersMsg({}))})

====
